---- MODULE Spec2Model ----
(***************************************************************************)
(* country-flags-util: the flag emoji encoder, the flag image URL builder  *)
(* and the <select> markup renderer of utils.js, as pure operators over    *)
(* JavaScript values, driven by a state machine that performs one call     *)
(* per step and records the call and its outcome; getAllCountries and      *)
(* getCountrySelect of index.js read the country table from a heap of      *)
(* objects that the caller of getAllCountries can write to.                *)
(*                                                                         *)
(* A JavaScript string is the sequence of its UTF-16 code units.           *)
(***************************************************************************)
EXTENDS Integers, Sequences, FiniteSets, TLC

VARIABLES
  op,    \* the function that is called
  args,  \* the arguments of the call
  ret,   \* the outcome of the call, NoOutcome while the call is pending
  heap,  \* the objects and the arrays of the process
  held,  \* the array the caller got from its first getAllCountries call
  seen,  \* the calls performed so far, each with its outcome
  threads,  \* the calls that run at the same time, each with its progress
  ui     \* the component getReactCountryComponent emits, once rendered

vars == <<op, args, ret, heap, held, seen, threads, ui>>

(***************************************************************************)
(* Bounds of the model.                                                    *)
(***************************************************************************)
\* longest array of countries handed to the renderer
MaxCountries == 2
\* how often a caller repeats a call with the same arguments
MaxRepeats == 2

(***************************************************************************)
(* Strings: literals of the source text as code-unit sequences.            *)
(***************************************************************************)
\* the printable ASCII characters from the space (32) to the underscore (95)
AsciiLow == " !\"#$%&'()*+,-./0123456789:;<=>?@ABCDEFGHIJKLMNOPQRSTUVWXYZ[\\]^_"
\* the printable ASCII characters from a (97) to the tilde (126)
AsciiHigh == "abcdefghijklmnopqrstuvwxyz{|}~"

\* the UTF-16 code unit of a one-character literal (printable ASCII or \n)
CharCode(ch) ==
  IF ch = "\n" THEN 10
  ELSE IF \E i \in 1..Len(AsciiLow) : SubSeq(AsciiLow, i, i) = ch
    THEN 31 + (CHOOSE i \in 1..Len(AsciiLow) : SubSeq(AsciiLow, i, i) = ch)
    ELSE 96 + (CHOOSE i \in 1..Len(AsciiHigh) : SubSeq(AsciiHigh, i, i) = ch)

\* a literal of the source as a JavaScript string
Lit(s) == [i \in 1..Len(s) |-> CharCode(SubSeq(s, i, i))]

RECURSIVE Concat(_)
\* the concatenation of a sequence of strings (a template literal's parts)
Concat(parts) ==
  IF parts = <<>> THEN <<>> ELSE Head(parts) \o Concat(Tail(parts))

RECURSIVE Join(_, _)
\* Array.prototype.join over strings
Join(strs, sep) ==
  IF strs = <<>> THEN <<>>
  ELSE IF Len(strs) = 1 THEN strs[1]
  ELSE strs[1] \o sep \o Join(Tail(strs), sep)

(***************************************************************************)
(* JavaScript values.                                                      *)
(***************************************************************************)
Undefined == [t |-> "undefined", s |-> <<>>, n |-> 0, items |-> <<>>]
Null      == [t |-> "null",      s |-> <<>>, n |-> 0, items |-> <<>>]
Obj       == [t |-> "object",    s |-> <<>>, n |-> 0, items |-> <<>>]
True      == [t |-> "boolean",   s |-> <<>>, n |-> 1, items |-> <<>>]
False     == [t |-> "boolean",   s |-> <<>>, n |-> 0, items |-> <<>>]
Num(k)    == [t |-> "number",    s |-> <<>>, n |-> k, items |-> <<>>]
Str(u)    == [t |-> "string",    s |-> u,    n |-> 0, items |-> <<>>]
Arr(xs)   == [t |-> "array",     s |-> <<>>, n |-> 0, items |-> xs]

\* the typeof operator
TypeOf(v) ==
  IF v.t \in {"null", "array"} THEN "object" ELSE v.t

\* ToBoolean: the truthiness of a value
ToBoolean(v) ==
  CASE v.t = "undefined" -> FALSE
    [] v.t = "null"      -> FALSE
    [] v.t = "boolean"   -> v.n = 1
    [] v.t = "number"    -> v.n # 0
    [] v.t = "string"    -> v.s # <<>>
    [] OTHER             -> TRUE

\* the strict equality operator === (objects and arrays compare by identity;
\* every object or array literal of a call is a fresh one)
StrictEquals(a, b) ==
  /\ a.t = b.t
  /\ a.t \notin {"object", "array"}
  /\ a = b

\* a parameter or destructuring default: it applies to undefined only
Default(v, d) == IF v.t = "undefined" THEN d ELSE v

RECURSIVE Digits(_)
\* the decimal digits of a natural number
Digits(k) ==
  IF k < 10 THEN <<48 + k>> ELSE Digits(k \div 10) \o <<48 + (k % 10)>>

\* Number::toString for an integer
NumToStr(k) == IF k < 0 THEN <<45>> \o Digits(0 - k) ELSE Digits(k)

LitUndefined == Lit("undefined")
LitNull == Lit("null")
LitTrue == Lit("true")
LitFalse == Lit("false")
LitObjectObject == Lit("[object Object]")
LitComma == Lit(",")

\* ToString, as a template literal applies it to an interpolated value
ToStr(v) ==
  CASE v.t = "undefined" -> LitUndefined
    [] v.t = "null"      -> LitNull
    [] v.t = "boolean"   -> IF v.n = 1 THEN LitTrue ELSE LitFalse
    [] v.t = "number"    -> NumToStr(v.n)
    [] v.t = "string"    -> v.s
    [] v.t = "object"    -> LitObjectObject
    [] v.t = "array"     ->
         Join([i \in 1..Len(v.items) |-> LitObjectObject], LitComma)

\* String.prototype.toUpperCase on one code unit, for the Basic Latin and
\* Latin-1 blocks and for lone code units outside them that have no upper
\* case (surrogates): a..z and Latin-1 small letters shift by 32, the sharp
\* s becomes SS, the micro sign and y-diaeresis leave Latin-1
UpperUnit(c) ==
  IF c >= 97 /\ c <= 122 THEN <<c - 32>>
  ELSE IF c = 223 THEN <<83, 83>>
  ELSE IF c = 181 THEN <<924>>
  ELSE IF c = 255 THEN <<376>>
  ELSE IF c >= 224 /\ c <= 254 /\ c # 247 THEN <<c - 32>>
  ELSE <<c>>

\* String.prototype.toUpperCase
ToUpperCase(u) == Concat([i \in 1..Len(u) |-> UpperUnit(u[i])])

\* String.prototype.toLowerCase on one code unit (Basic Latin and Latin-1)
LowerUnit(c) ==
  IF c >= 65 /\ c <= 90 THEN c + 32
  ELSE IF c >= 192 /\ c <= 222 /\ c # 215 THEN c + 32
  ELSE c

\* String.prototype.toLowerCase
ToLowerCase(u) == [i \in 1..Len(u) |-> LowerUnit(u[i])]

\* the UTF-16 encoding of one code point, as String.fromCodePoint emits it
FromCodePoint(cp) ==
  IF cp < 65536 THEN <<cp>>
  ELSE <<55296 + ((cp - 65536) \div 1024), 56320 + ((cp - 65536) % 1024)>>

(***************************************************************************)
(* Outcomes of a call.                                                     *)
(***************************************************************************)
NoError == [name |-> "", message |-> <<>>]
NoOutcome == [kind |-> "none", val |-> Undefined, err |-> NoError]
Return(v) == [kind |-> "return", val |-> v, err |-> NoError]
Throw(nm, msg) ==
  [kind |-> "throw", val |-> Undefined, err |-> [name |-> nm, message |-> msg]]

(***************************************************************************)
(* utils.js: getFlagEmoji                                                  *)
(***************************************************************************)
\* the distance from a capital letter to its Regional Indicator Symbol
Offset == 127397

EmptyString == Str(<<>>)

\* the guard shared by getFlagEmoji and getFlagImageUrl
InvalidCode(code) ==
  \/ ~ToBoolean(code)
  \/ TypeOf(code) # "string"
  \/ Len(code.s) # 2

\* String.fromCodePoint(...codePoints)
FromCodePoints(codePoints) ==
  Concat([i \in 1..Len(codePoints) |-> FromCodePoint(codePoints[i])])

\* getFlagEmoji with the length test left out of its guard
getFlagEmoji_NoLengthTest(code) ==
  IF ~ToBoolean(code) \/ TypeOf(code) # "string" THEN Return(EmptyString)
  ELSE LET chars == ToUpperCase(code.s)
           codePoints == [i \in 1..Len(chars) |-> Offset + chars[i]]
       IN  Return(Str(FromCodePoints(codePoints)))

\* getFlagEmoji adding the first Regional Indicator Symbol, not its distance
\* from the letter A
getFlagEmoji_OffsetFromZero(code) ==
  IF InvalidCode(code) THEN Return(EmptyString)
  ELSE LET chars == ToUpperCase(code.s)
           codePoints == [i \in 1..Len(chars) |-> 127462 + chars[i]]
       IN  Return(Str(FromCodePoints(codePoints)))

\* getFlagEmoji without the call of toUpperCase
getFlagEmoji_NoUpperCase(code) ==
  IF InvalidCode(code) THEN Return(EmptyString)
  ELSE LET chars == code.s
           codePoints == [i \in 1..Len(chars) |-> Offset + chars[i]]
       IN  Return(Str(FromCodePoints(codePoints)))

getFlagEmoji(code) ==
  IF InvalidCode(code) THEN Return(EmptyString)
  ELSE LET chars == ToUpperCase(code.s)
           codePoints == [i \in 1..Len(chars) |-> Offset + chars[i]]
       IN  Return(Str(FromCodePoints(codePoints)))

(***************************************************************************)
(* utils.js: getFlagImageUrl                                               *)
(***************************************************************************)
\* the default of the width parameter and of the flagWidth option
DefaultWidth == 40

LitUrlHead == Lit("https://flagcdn.com/w")
LitSlash == Lit("/")
LitPng == Lit(".png")

\* getFlagImageUrl raising the width to at least one pixel
getFlagImageUrl_Clamped(code, widthArg) ==
  LET given == Default(widthArg, Num(DefaultWidth))
      width == IF given.t = "number" /\ given.n < 1 THEN Num(1) ELSE given
  IN  IF InvalidCode(code) THEN Return(EmptyString)
      ELSE Return(Str(Concat(<<LitUrlHead, ToStr(width), LitSlash,
                               ToLowerCase(code.s), LitPng>>)))

\* getFlagImageUrl with the length test left out of its guard
getFlagImageUrl_NoLengthTest(code, widthArg) ==
  LET width == Default(widthArg, Num(DefaultWidth))
  IN  IF ~ToBoolean(code) \/ TypeOf(code) # "string" THEN Return(EmptyString)
      ELSE Return(Str(Concat(<<LitUrlHead, ToStr(width), LitSlash,
                               ToLowerCase(code.s), LitPng>>)))

\* getFlagImageUrl without its guard, which then fails at code.toLowerCase
\* for a code that is no string
getFlagImageUrl_Unguarded(code, widthArg) ==
  LET width == Default(widthArg, Num(DefaultWidth))
  IN  IF TypeOf(code) # "string"
      THEN Throw("TypeError", Lit("code.toLowerCase is not a function"))
      ELSE Return(Str(Concat(<<LitUrlHead, ToStr(width), LitSlash,
                               ToLowerCase(code.s), LitPng>>)))

getFlagImageUrl(code, widthArg) ==
  LET width == Default(widthArg, Num(DefaultWidth))
  IN  IF InvalidCode(code) THEN Return(EmptyString)
      ELSE Return(Str(Concat(<<LitUrlHead, ToStr(width), LitSlash,
                               ToLowerCase(code.s), LitPng>>)))

(***************************************************************************)
(* utils.js: getCountrySelectHTML                                          *)
(***************************************************************************)
LitCountrySelect == Lit("country-select")
LitCountry == Lit("country")
LitSelected == Lit(" selected")
LitImgSrc == Lit("<img src=\"")
LitImgAlt == Lit("\" alt=\"")
LitImgStyle == Lit("\" style=\"vertical-align: middle; margin-right: 5px; width: ")
LitImgEnd == Lit("px;\">")
LitSpace == Lit(" ")
LitOptionValue == Lit("<option value=\"")
LitQuote == Lit("\"")
LitGt == Lit(">")
LitOptionClose == Lit("</option>")
LitOptionSep == Lit("\n  ")
LitSelectId == Lit("<select id=\"")
LitSelectName == Lit("\" name=\"")
LitSelectClass == Lit("\" class=\"")
LitSelectBody == Lit("\">\n  ")
LitSelectClose == Lit("\n</select>")
LitMustBeArray == Lit("Countries must be an array")

\* the options argument left out
NoOptions ==
  [id |-> Undefined, name |-> Undefined, className |-> Undefined,
   selectedCode |-> Undefined, useImageFlags |-> Undefined,
   flagWidth |-> Undefined]

\* the destructuring with the defaults of id and name exchanged
Destructure_SwappedDefaults(options) ==
  [id            |-> Default(options.id, Str(LitCountry)),
   name          |-> Default(options.name, Str(LitCountrySelect)),
   className     |-> Default(options.className, EmptyString),
   selectedCode  |-> Default(options.selectedCode, EmptyString),
   useImageFlags |-> Default(options.useImageFlags, True),
   flagWidth     |-> Default(options.flagWidth, Num(DefaultWidth))]

\* the destructuring with the emoji flags as the default of useImageFlags
Destructure_EmojiByDefault(options) ==
  [id            |-> Default(options.id, Str(LitCountrySelect)),
   name          |-> Default(options.name, Str(LitCountry)),
   className     |-> Default(options.className, EmptyString),
   selectedCode  |-> Default(options.selectedCode, EmptyString),
   useImageFlags |-> Default(options.useImageFlags, False),
   flagWidth     |-> Default(options.flagWidth, Num(DefaultWidth))]

\* the options object after destructuring with its defaults
Destructure(options) ==
  [id            |-> Default(options.id, Str(LitCountrySelect)),
   name          |-> Default(options.name, Str(LitCountry)),
   className     |-> Default(options.className, EmptyString),
   selectedCode  |-> Default(options.selectedCode, EmptyString),
   useImageFlags |-> Default(options.useImageFlags, True),
   flagWidth     |-> Default(options.flagWidth, Num(DefaultWidth))]

\* the callback comparing the codes without regard to case
OptionHTML_IgnoringCase(country, o) ==
  LET selected ==
        IF /\ country.code.t = "string"
           /\ o.selectedCode.t = "string"
           /\ ToUpperCase(country.code.s) = ToUpperCase(o.selectedCode.s)
        THEN LitSelected
        ELSE <<>>
      flagUrl == getFlagImageUrl(country.code, o.flagWidth).val
      flagDisplay ==
        IF ToBoolean(o.useImageFlags)
        THEN Concat(<<LitImgSrc, ToStr(flagUrl), LitImgAlt,
                      ToStr(country.code), LitImgStyle, ToStr(o.flagWidth),
                      LitImgEnd>>)
        ELSE ToStr(country.flag) \o LitSpace
  IN  Concat(<<LitOptionValue, ToStr(country.code), LitQuote, selected,
               LitGt, flagDisplay, ToStr(country.name), LitOptionClose>>)

\* the callback testing that a selected code is set, not that it is the
\* country's
OptionHTML_SelectedWhenSet(country, o) ==
  LET selected ==
        IF ToBoolean(o.selectedCode) THEN LitSelected ELSE <<>>
      flagUrl == getFlagImageUrl(country.code, o.flagWidth).val
      flagDisplay ==
        IF ToBoolean(o.useImageFlags)
        THEN Concat(<<LitImgSrc, ToStr(flagUrl), LitImgAlt,
                      ToStr(country.code), LitImgStyle, ToStr(o.flagWidth),
                      LitImgEnd>>)
        ELSE ToStr(country.flag) \o LitSpace
  IN  Concat(<<LitOptionValue, ToStr(country.code), LitQuote, selected,
               LitGt, flagDisplay, ToStr(country.name), LitOptionClose>>)

\* the callback with the comparison of the codes inverted
OptionHTML_Inverted(country, o) ==
  LET selected ==
        IF ~StrictEquals(country.code, o.selectedCode) THEN LitSelected
        ELSE <<>>
      flagUrl == getFlagImageUrl(country.code, o.flagWidth).val
      flagDisplay ==
        IF ToBoolean(o.useImageFlags)
        THEN Concat(<<LitImgSrc, ToStr(flagUrl), LitImgAlt,
                      ToStr(country.code), LitImgStyle, ToStr(o.flagWidth),
                      LitImgEnd>>)
        ELSE ToStr(country.flag) \o LitSpace
  IN  Concat(<<LitOptionValue, ToStr(country.code), LitQuote, selected,
               LitGt, flagDisplay, ToStr(country.name), LitOptionClose>>)

\* the callback asking for the image URL without handing on the width
OptionHTML_UrlWithoutWidth(country, o) ==
  LET selected ==
        IF StrictEquals(country.code, o.selectedCode) THEN LitSelected
        ELSE <<>>
      flagUrl == getFlagImageUrl(country.code, Undefined).val
      flagDisplay ==
        IF ToBoolean(o.useImageFlags)
        THEN Concat(<<LitImgSrc, ToStr(flagUrl), LitImgAlt,
                      ToStr(country.code), LitImgStyle, ToStr(o.flagWidth),
                      LitImgEnd>>)
        ELSE ToStr(country.flag) \o LitSpace
  IN  Concat(<<LitOptionValue, ToStr(country.code), LitQuote, selected,
               LitGt, flagDisplay, ToStr(country.name), LitOptionClose>>)

\* the callback computing the emoji from the code, not reading the flag field
OptionHTML_RecomputedFlag(country, o) ==
  LET selected ==
        IF StrictEquals(country.code, o.selectedCode) THEN LitSelected
        ELSE <<>>
      flagUrl == getFlagImageUrl(country.code, o.flagWidth).val
      flagDisplay ==
        IF ToBoolean(o.useImageFlags)
        THEN Concat(<<LitImgSrc, ToStr(flagUrl), LitImgAlt,
                      ToStr(country.code), LitImgStyle, ToStr(o.flagWidth),
                      LitImgEnd>>)
        ELSE ToStr(getFlagEmoji(country.code).val) \o LitSpace
  IN  Concat(<<LitOptionValue, ToStr(country.code), LitQuote, selected,
               LitGt, flagDisplay, ToStr(country.name), LitOptionClose>>)

\* the callback falling back to the emoji when there is no image URL
OptionHTML_ImageWhenValid(country, o) ==
  LET selected ==
        IF StrictEquals(country.code, o.selectedCode) THEN LitSelected
        ELSE <<>>
      flagUrl == getFlagImageUrl(country.code, o.flagWidth).val
      flagDisplay ==
        IF ToBoolean(o.useImageFlags) /\ ToBoolean(flagUrl)
        THEN Concat(<<LitImgSrc, ToStr(flagUrl), LitImgAlt,
                      ToStr(country.code), LitImgStyle, ToStr(o.flagWidth),
                      LitImgEnd>>)
        ELSE ToStr(country.flag) \o LitSpace
  IN  Concat(<<LitOptionValue, ToStr(country.code), LitQuote, selected,
               LitGt, flagDisplay, ToStr(country.name), LitOptionClose>>)

\* the callback sizing the image with a width of at least zero
OptionHTML_StyleClamped(country, o) ==
  LET selected ==
        IF StrictEquals(country.code, o.selectedCode) THEN LitSelected
        ELSE <<>>
      flagUrl == getFlagImageUrl(country.code, o.flagWidth).val
      shown == IF o.flagWidth.t = "number" /\ o.flagWidth.n < 0 THEN Num(0)
               ELSE o.flagWidth
      flagDisplay ==
        IF ToBoolean(o.useImageFlags)
        THEN Concat(<<LitImgSrc, ToStr(flagUrl), LitImgAlt,
                      ToStr(country.code), LitImgStyle, ToStr(shown),
                      LitImgEnd>>)
        ELSE ToStr(country.flag) \o LitSpace
  IN  Concat(<<LitOptionValue, ToStr(country.code), LitQuote, selected,
               LitGt, flagDisplay, ToStr(country.name), LitOptionClose>>)

\* the callback of countries.map: the markup of one country
OptionHTML(country, o) ==
  LET selected ==
        IF StrictEquals(country.code, o.selectedCode) THEN LitSelected
        ELSE <<>>
      flagUrl == getFlagImageUrl(country.code, o.flagWidth).val
      flagDisplay ==
        IF ToBoolean(o.useImageFlags)
        THEN Concat(<<LitImgSrc, ToStr(flagUrl), LitImgAlt,
                      ToStr(country.code), LitImgStyle, ToStr(o.flagWidth),
                      LitImgEnd>>)
        ELSE ToStr(country.flag) \o LitSpace
  IN  Concat(<<LitOptionValue, ToStr(country.code), LitQuote, selected,
               LitGt, flagDisplay, ToStr(country.name), LitOptionClose>>)

\* the markup of the countries whose code no earlier country has
OptionsHTML_Deduplicated(items, o) ==
  LET kept == SelectSeq([i \in 1..Len(items) |-> <<i, items[i]>>],
                        LAMBDA p : \A j \in 1..(p[1] - 1) :
                                      items[j].code # p[2].code)
  IN  Join([i \in 1..Len(kept) |-> OptionHTML(kept[i][2], o)], LitOptionSep)

\* countries.map(...).join: the markup of all countries
OptionsHTML(items, o) ==
  Join([i \in 1..Len(items) |-> OptionHTML(items[i], o)], LitOptionSep)

\* getCountrySelectHTML without its test of the countries argument, which
\* then fails at the call of countries.map
getCountrySelectHTML_NoArrayTest(countries, options) ==
  IF countries.t # "array" THEN Throw("TypeError", Lit("countries.map is not a function"))
  ELSE LET o == Destructure(options)
           optionsHTML == OptionsHTML(countries.items, o)
       IN  Return(Str(Concat(<<LitSelectId, ToStr(o.id), LitSelectName,
                                ToStr(o.name), LitSelectClass,
                                ToStr(o.className), LitSelectBody,
                                optionsHTML, LitSelectClose>>)))

\* getCountrySelectHTML leaving out the class attribute of an empty className
getCountrySelectHTML_ClassOmitted(countries, options) ==
  IF countries.t # "array" THEN Throw("Error", LitMustBeArray)
  ELSE LET o == Destructure(options)
           optionsHTML == OptionsHTML(countries.items, o)
           class == IF ToBoolean(o.className)
                    THEN Lit(" class=\"") \o ToStr(o.className) \o LitQuote
                    ELSE <<>>
       IN  Return(Str(Concat(<<LitSelectId, ToStr(o.id), Lit("\" name=\""),
                                ToStr(o.name), LitQuote, class, Lit(">\n  "),
                                optionsHTML, LitSelectClose>>)))

getCountrySelectHTML(countries, options) ==
  IF countries.t # "array" THEN Throw("Error", LitMustBeArray)
  ELSE LET o == Destructure(options)
           optionsHTML == OptionsHTML(countries.items, o)
       IN  Return(Str(Concat(<<LitSelectId, ToStr(o.id), LitSelectName,
                                ToStr(o.name), LitSelectClass,
                                ToStr(o.className), LitSelectBody,
                                optionsHTML, LitSelectClose>>)))

(***************************************************************************)
(* frameworks/react.js: getReactCountrySelect                              *)
(***************************************************************************)
\* the properties of a props object, in the order the caller wrote them
PropsKeys ==
  <<"id", "name", "className", "selectedCode", "useImageFlags", "flagWidth",
    "defaultValue", "onChange", "ngModel">>

\* the props argument left out
NoProps ==
  [id |-> Undefined, name |-> Undefined, className |-> Undefined,
   selectedCode |-> Undefined, useImageFlags |-> Undefined,
   flagWidth |-> Undefined, defaultValue |-> Undefined,
   onChange |-> Undefined, ngModel |-> Undefined]

\* ...otherProps: the properties the caller set that the destructuring does
\* not name, as entries of key and value in the order of the props object
OtherProps(props, named) ==
  LET keys == SelectSeq(PropsKeys,
                        LAMBDA k : k \notin named /\ props[k] # Undefined)
  IN  [i \in 1..Len(keys) |-> [key |-> Lit(keys[i]), value |-> props[keys[i]]]]

\* the entries whose value is not the empty string
NonEmptyEntries(entries) ==
  SelectSeq(entries, LAMBDA e : ~StrictEquals(e.value, EmptyString))

\* the text of the templates of getReactCountrySelect, its default of
\* onChange and the prefix of an event handler
ReactText ==
  [ on |-> Lit("on"),
    eqBrace |-> Lit("={"),
    braceEnd |-> Lit("}"),
    eqQuote |-> Lit("=\""),
    handleChange |-> Lit("handleChange"),
    optionKey |-> Lit("  <option key=\""),
    value |-> Lit("\" value=\""),
    optionStyle |->
     Lit("\" style={{ display: 'flex', alignItems: 'center', padding: '8px' }}>\n    <>\n      <img \n        src={getFlagImageUrl(\""),
    urlComma |-> Lit("\", "),
    alt |-> Lit(")} \n        alt=\""),
    imgStyle |-> Lit("\" \n        style={{ marginRight: '5px', width: '"),
    imgEnd |-> Lit("px', verticalAlign: 'middle' }} \n      />\n      {' "),
    optionEnd |-> Lit("'}\n    </>\n  </option>"),
    emoji |-> Lit("\">"),
    newline |-> Lit("\n"),
    head |->
     Lit("// Don't forget to import getFlagImageUrl if using image flags\nimport { getFlagImageUrl } from 'country-flags-util';\n\n<select "),
    selectStyle |-> Lit(" style={{ padding: '8px' }}>\n") ]

\* the attribute of an entry: an event handler in braces, a string in quotes
ReactAttribute(e) ==
  IF Len(e.key) >= 2 /\ SubSeq(e.key, 1, 2) = ReactText.on
  THEN Concat(<<e.key, ReactText.eqBrace, ToStr(e.value), ReactText.braceEnd>>)
  ELSE Concat(<<e.key, ReactText.eqQuote, ToStr(e.value), LitQuote>>)

\* the props after destructuring with their defaults
ReactProps(props) ==
  [id            |-> Default(props.id, Str(LitCountrySelect)),
   name          |-> Default(props.name, Str(LitCountry)),
   className     |-> Default(props.className, EmptyString),
   defaultValue  |-> Default(props.defaultValue, EmptyString),
   onChange      |-> Default(props.onChange, Str(ReactText.handleChange)),
   useImageFlags |-> Default(props.useImageFlags, True),
   flagWidth     |-> Default(props.flagWidth, Num(DefaultWidth)),
   otherProps    |-> OtherProps(props, {"id", "name", "className",
                                        "defaultValue", "onChange",
                                        "useImageFlags", "flagWidth"})]

\* propsString: the attributes of the select element
ReactPropsString(p) ==
  LET entries == <<[key |-> Lit("id"), value |-> p.id],
                   [key |-> Lit("name"), value |-> p.name],
                   [key |-> Lit("className"), value |-> p.className],
                   [key |-> Lit("defaultValue"), value |-> p.defaultValue],
                   [key |-> Lit("onChange"), value |-> p.onChange]>>
                 \o p.otherProps
      kept == NonEmptyEntries(entries)
  IN  Join([i \in 1..Len(kept) |-> ReactAttribute(kept[i])], LitSpace)

\* the callback of countries.map: the JSX of one country
ReactOption(country, p) ==
  IF ToBoolean(p.useImageFlags)
  THEN Concat(<<ReactText.optionKey, ToStr(country.code), ReactText.value,
                ToStr(country.code), ReactText.optionStyle,
                ToStr(country.code), ReactText.urlComma, ToStr(p.flagWidth),
                ReactText.alt, ToStr(country.code), ReactText.imgStyle,
                ToStr(p.flagWidth), ReactText.imgEnd, ToStr(country.name),
                ReactText.optionEnd>>)
  ELSE Concat(<<ReactText.optionKey, ToStr(country.code), ReactText.value,
                ToStr(country.code), ReactText.emoji, ToStr(country.flag),
                LitSpace, ToStr(country.name), LitOptionClose>>)

\* the JSX of the countries whose code no earlier country has
ReactOptionsCode_Deduplicated(items, p) ==
  LET kept == SelectSeq([i \in 1..Len(items) |-> <<i, items[i]>>],
                        LAMBDA q : \A j \in 1..(q[1] - 1) :
                                      items[j].code # q[2].code)
  IN  Join([i \in 1..Len(kept) |-> ReactOption(kept[i][2], p)], ReactText.newline)

\* optionsCode: the JSX of all countries
ReactOptionsCode(items, p) ==
  Join([i \in 1..Len(items) |-> ReactOption(items[i], p)], ReactText.newline)

\* getReactCountrySelect without its test of the countries argument, which
\* then fails at the call of countries.map
getReactCountrySelect_NoArrayTest(countries, props) ==
  IF countries.t # "array"
  THEN Throw("TypeError", Lit("countries.map is not a function"))
  ELSE LET p == ReactProps(props)
       IN  Return(Str(Concat(<<ReactText.head, ReactPropsString(p),
                                ReactText.selectStyle,
                                ReactOptionsCode(countries.items, p),
                                LitSelectClose>>)))

getReactCountrySelect(countries, props) ==
  IF countries.t # "array" THEN Throw("Error", LitMustBeArray)
  ELSE LET p == ReactProps(props)
       IN  Return(Str(Concat(<<ReactText.head, ReactPropsString(p),
                                ReactText.selectStyle,
                                ReactOptionsCode(countries.items, p),
                                LitSelectClose>>)))

(***************************************************************************)
(* frameworks/angular.js: getAngularCountrySelect                          *)
(***************************************************************************)
\* the text of the templates of getAngularCountrySelect, its default of
\* ngModel and the message of the TypeError of code.toLowerCase
AngularText ==
  [ selectedCountry |-> Lit("selectedCountry"),
    optionValue |-> Lit("  <option [value]=\""),
    imgSrc |-> Lit("\">\n    <img [src]=\"'https://flagcdn.com/w"),
    alt |-> Lit(".png'\" \n         [alt]=\"'"),
    imgStyle |-> Lit("'\" \n         style=\"margin-right: 5px; width: "),
    imgEnd |-> Lit("px; vertical-align: middle;\" /> "),
    optionEnd |-> Lit("\n  </option>"),
    select |-> Lit("<select [(ngModel)]=\""),
    selectEnd |-> Lit(">\n"),
    noToLowerCase |-> Lit("code.toLowerCase is not a function"),
    valueEnd |-> Lit("\">"),
    eqQuote |-> Lit("=\""),
    newline |-> Lit("\n") ]

\* the props after destructuring with their defaults
AngularProps(props) ==
  [id            |-> Default(props.id, Str(LitCountrySelect)),
   name          |-> Default(props.name, Str(LitCountry)),
   className     |-> Default(props.className, EmptyString),
   ngModel       |-> Default(props.ngModel, Str(AngularText.selectedCountry)),
   useImageFlags |-> Default(props.useImageFlags, True),
   flagWidth     |-> Default(props.flagWidth, Num(DefaultWidth)),
   otherProps    |-> OtherProps(props, {"id", "name", "className", "ngModel",
                                        "useImageFlags", "flagWidth"})]

\* propsString: the attributes of the select element
AngularPropsString(p) ==
  LET entries == <<[key |-> Lit("id"), value |-> p.id],
                   [key |-> Lit("name"), value |-> p.name],
                   [key |-> Lit("class"), value |-> p.className]>>
                 \o p.otherProps
      kept == NonEmptyEntries(entries)
  IN  Join([i \in 1..Len(kept) |->
              Concat(<<kept[i].key, AngularText.eqQuote, ToStr(kept[i].value),
                       LitQuote>>)],
           LitSpace)

\* the callback building the image URL from the code as it is written
AngularOption_CodeAsWritten(country, p) ==
  IF ToBoolean(p.useImageFlags)
  THEN Concat(<<AngularText.optionValue, ToStr(country.code), AngularText.imgSrc,
                ToStr(p.flagWidth), LitSlash, country.code.s,
                AngularText.alt, ToStr(country.code), AngularText.imgStyle,
                ToStr(p.flagWidth), AngularText.imgEnd, ToStr(country.name),
                AngularText.optionEnd>>)
  ELSE Concat(<<AngularText.optionValue, ToStr(country.code), AngularText.valueEnd,
                ToStr(country.flag), LitSpace, ToStr(country.name),
                LitOptionClose>>)

\* the callback of countries.map: the template of one country whose code,
\* in image mode, is a string
AngularOption(country, p) ==
  IF ToBoolean(p.useImageFlags)
  THEN Concat(<<AngularText.optionValue, ToStr(country.code), AngularText.imgSrc,
                ToStr(p.flagWidth), LitSlash, ToLowerCase(country.code.s),
                AngularText.alt, ToStr(country.code), AngularText.imgStyle,
                ToStr(p.flagWidth), AngularText.imgEnd, ToStr(country.name),
                AngularText.optionEnd>>)
  ELSE Concat(<<AngularText.optionValue, ToStr(country.code), AngularText.valueEnd,
                ToStr(country.flag), LitSpace, ToStr(country.name),
                LitOptionClose>>)

\* optionsCode: the template of all countries
AngularOptionsCode(items, p) ==
  Join([i \in 1..Len(items) |-> AngularOption(items[i], p)], AngularText.newline)

\* in image mode the callback calls toLowerCase on every code, which fails
\* for a code that is no string
getAngularCountrySelect(countries, props) ==
  IF countries.t # "array" THEN Throw("Error", LitMustBeArray)
  ELSE LET p == AngularProps(props)
           items == countries.items
       IN  IF /\ ToBoolean(p.useImageFlags)
              /\ \E i \in 1..Len(items) : TypeOf(items[i].code) # "string"
           THEN Throw("TypeError", AngularText.noToLowerCase)
           ELSE Return(Str(Concat(<<AngularText.select, ToStr(p.ngModel), LitQuote,
                                    LitSpace, AngularPropsString(p),
                                    AngularText.selectEnd,
                                    AngularOptionsCode(items, p),
                                    LitSelectClose>>)))

(***************************************************************************)
(* frameworks/vanilla.js: getVanillaJsCode                                 *)
(***************************************************************************)
\* the options argument left out
NoVanillaOptions ==
  [containerId |-> Undefined, selectId |-> Undefined, selectName |-> Undefined,
   selectClass |-> Undefined, selectedCode |-> Undefined,
   onChangeFunction |-> Undefined, useImageFlags |-> Undefined,
   flagWidth |-> Undefined]

\* the text of the templates of getVanillaJsCode and its default of
\* containerId; 96 is the backtick of a template literal
VanillaText ==
  [ countryContainer |-> Lit("country-container"),
    listener |-> Lit("\n  countrySelect.addEventListener('change', "),
    listenerEnd |-> Lit(");"),
    head |->
     Lit("// Import the package in your project\n") \o
     Lit("// const { getAllCountries, getFlagImageUrl } = require('country-flags-util'); // For Node.js\n") \o
     Lit("// import { getAllCountries, getFlagImageUrl } from 'country-flags-util'; // For ES modules\n") \o
     Lit("\ndocument.addEventListener('DOMContentLoaded', function() {\n") \o
     Lit("  // Get the container element\n") \o
     Lit("  const container = document.getElementById('"),
    selectId |->
     Lit("');\n  \n  // Create select element\n") \o
     Lit("  const countrySelect = document.createElement('select');\n") \o
     Lit("  countrySelect.id = '"),
    selectName |-> Lit("';\n  countrySelect.name = '"),
    classAt |-> Lit("';\n  "),
    className |-> Lit("countrySelect.className = '"),
    statementEnd |-> Lit("';"),
    forEach |->
     Lit("\n  \n  // Get all countries\n") \o
     Lit("  const countries = getAllCountries();\n  \n") \o
     Lit("  // Add options for each country\n") \o
     Lit("  countries.forEach(country => {\n") \o
     Lit("    const option = document.createElement('option');\n") \o
     Lit("    option.value = country.code;\n    "),
    image |->
     Lit("// Create option with flag image\n") \o
     Lit("    const optionContainer = document.createElement('div');\n") \o
     Lit("    optionContainer.style.display = 'flex';\n") \o
     Lit("    optionContainer.style.alignItems = 'center';\n    \n") \o
     Lit("    const flagImg = document.createElement('img');\n") \o
     Lit("    flagImg.src = getFlagImageUrl(country.code, "),
    imageWidth |->
     Lit(");\n    flagImg.alt = country.code;\n    flagImg.style.width = '"),
    imageEnd |->
     Lit("px';\n    flagImg.style.marginRight = '5px';\n") \o
     Lit("    flagImg.style.verticalAlign = 'middle';\n    \n") \o
     Lit("    optionContainer.appendChild(flagImg);\n") \o
     Lit("    optionContainer.appendChild(document.createTextNode(country.name));\n") \o
     Lit("    \n    option.appendChild(optionContainer);"),
    emoji |->
     Lit("option.textContent = ") \o <<96>> \o
     Lit("${country.flag} ${country.name}") \o <<96>> \o
     Lit(";"),
    selectedAt |-> Lit("\n    \n    "),
    ifCode |-> Lit("if(country.code === '"),
    selected |-> Lit("') option.selected = true;"),
    append |->
     Lit("\n    countrySelect.appendChild(option);\n  });\n  \n") \o
     Lit("  // Add the select to the container\n") \o
     Lit("  container.appendChild(countrySelect);"),
    end |-> Lit("\n});") ]

\* the options after destructuring with their defaults
VanillaOptions(options) ==
  [containerId      |-> Default(options.containerId, Str(VanillaText.countryContainer)),
   selectId         |-> Default(options.selectId, Str(LitCountrySelect)),
   selectName       |-> Default(options.selectName, Str(LitCountry)),
   selectClass      |-> Default(options.selectClass, EmptyString),
   selectedCode     |-> Default(options.selectedCode, EmptyString),
   onChangeFunction |-> Default(options.onChangeFunction, EmptyString),
   useImageFlags    |-> Default(options.useImageFlags, True),
   flagWidth        |-> Default(options.flagWidth, Num(DefaultWidth))]

\* onChangeCode: the statement registering the change listener, if any
OnChangeCode(o) ==
  IF ToBoolean(o.onChangeFunction)
  THEN Concat(<<VanillaText.listener, ToStr(o.onChangeFunction),
                VanillaText.listenerEnd>>)
  ELSE <<>>

\* the statement setting the class of the select element, if any
ClassStatement(o) ==
  IF ToBoolean(o.selectClass)
  THEN Concat(<<VanillaText.className, ToStr(o.selectClass),
                VanillaText.statementEnd>>)
  ELSE <<>>

\* the statements filling an option with its flag and name
FlagStatements(o) ==
  IF ToBoolean(o.useImageFlags)
  THEN Concat(<<VanillaText.image, ToStr(o.flagWidth), VanillaText.imageWidth,
                ToStr(o.flagWidth), VanillaText.imageEnd>>)
  ELSE VanillaText.emoji

\* the statement emitted whenever the selected code is a string, the empty
\* one included
SelectedStatement_WhenString(o) ==
  IF TypeOf(o.selectedCode) = "string"
  THEN Concat(<<VanillaText.ifCode, ToStr(o.selectedCode), VanillaText.selected>>)
  ELSE <<>>

\* the statement selecting the option of the selected code, if any
SelectedStatement(o) ==
  IF ToBoolean(o.selectedCode)
  THEN Concat(<<VanillaText.ifCode, ToStr(o.selectedCode), VanillaText.selected>>)
  ELSE <<>>

getVanillaJsCode(options) ==
  LET o == VanillaOptions(options)
  IN  Return(Str(Concat(<<VanillaText.head, ToStr(o.containerId),
                           VanillaText.selectId, ToStr(o.selectId),
                           VanillaText.selectName, ToStr(o.selectName),
                           VanillaText.classAt, ClassStatement(o),
                           VanillaText.forEach, FlagStatements(o),
                           VanillaText.selectedAt, SelectedStatement(o),
                           VanillaText.append, OnChangeCode(o),
                           VanillaText.end>>)))

(***************************************************************************)
(* index.js: the country table, getAllCountries and getCountrySelect       *)
(***************************************************************************)
\* the rows of countries.js, in the order of the table
countries ==
  << [name |-> Str(Lit("Afghanistan")), code |-> Str(Lit("AF")),
      flag |-> Undefined],
     [name |-> Str(<<197>> \o Lit("land Islands")), code |-> Str(Lit("AX")),
      flag |-> Undefined],
     [name |-> Str(Lit("India")), code |-> Str(Lit("IN")),
      flag |-> Undefined] >>

\* the heap after the modules are loaded: the table array and its rows; an
\* object is named by the array it was created for and its place there
InitialHeap ==
  [objs |-> [p \in {<<"table", i>> : i \in 1..Len(countries)} |->
               countries[p[2]]],
   arrs |-> [a \in {"table"} |->
               [i \in 1..Len(countries) |-> <<"table", i>>]]]

\* the elements of an array of the heap, as values
ValuesOf(h, a) == [i \in 1..Len(h.arrs[a]) |-> h.objs[h.arrs[a][i]]]

\* the heap without an array and the objects created for it
Free(h, a) ==
  [objs |-> [p \in {q \in DOMAIN h.objs : q[1] # a} |-> h.objs[p]],
   arrs |-> [b \in DOMAIN h.arrs \ {a} |-> h.arrs[b]]]

\* the callback computing the flag from the name of the row
Enriched_FlagFromName(country) ==
  [name |-> country.name,
   code |-> country.code,
   flag |-> getFlagEmoji(country.name).val]

\* the object the callback of countries.map creates for a row
Enriched(country) ==
  [name |-> country.name,
   code |-> country.code,
   flag |-> getFlagEmoji(country.code).val]

\* getAllCountries writing the flag into the rows of the table and returning
\* a new array of these rows
getAllCountries_InPlace(h, a) ==
  [heap |->
     [objs |-> [p \in DOMAIN h.objs |->
                  IF p[1] = "table" THEN Enriched(h.objs[p]) ELSE h.objs[p]],
      arrs |-> [b \in DOMAIN h.arrs \cup {a} |->
                  IF b = a THEN h.arrs["table"] ELSE h.arrs[b]]],
   arr |-> a]

\* getAllCountries keeping the array of its first call and returning it again
getAllCountries_Cached(h, a) ==
  IF "held" \in DOMAIN h.arrs THEN [heap |-> h, arr |-> "held"]
  ELSE LET table == h.arrs["table"]
           others == {q \in DOMAIN h.objs : q[1] # a}
           created == {<<a, i>> : i \in 1..Len(table)}
       IN  [heap |->
              [objs |-> [p \in others \cup created |->
                           IF p \in created
                           THEN Enriched(h.objs[table[p[2]]])
                           ELSE h.objs[p]],
               arrs |-> [b \in DOMAIN h.arrs \cup {a} |->
                           IF b = a THEN [i \in 1..Len(table) |-> <<a, i>>]
                           ELSE h.arrs[b]]],
            arr |-> a]

\* getAllCountries: a new array a of new objects, one per row of the table;
\* the result is the heap after the call and the array returned
getAllCountries(h, a) ==
  LET table == h.arrs["table"]
      others == {q \in DOMAIN h.objs : q[1] # a}
      created == {<<a, i>> : i \in 1..Len(table)}
  IN  [heap |->
         [objs |-> [p \in others \cup created |->
                      IF p \in created THEN Enriched(h.objs[table[p[2]]])
                      ELSE h.objs[p]],
          arrs |-> [b \in DOMAIN h.arrs \cup {a} |->
                      IF b = a THEN [i \in 1..Len(table) |-> <<a, i>>]
                      ELSE h.arrs[b]]],
       arr |-> a]

\* getCountrySelect not handing on its options
getCountrySelect_OptionsDropped(h, options) ==
  LET all == getAllCountries(h, "temp")
  IN  [heap |-> Free(all.heap, "temp"),
       outcome |-> getCountrySelectHTML(Arr(ValuesOf(all.heap, all.arr)),
                                        NoOptions)]

\* getCountrySelect: the markup of the array getAllCountries returns, which
\* nobody keeps; the result is the heap after the call and the outcome
getCountrySelect(h, options) ==
  LET all == getAllCountries(h, "temp")
  IN  [heap |-> Free(all.heap, "temp"),
       outcome |-> getCountrySelectHTML(Arr(ValuesOf(all.heap, all.arr)),
                                        options)]

(***************************************************************************)
(* The inputs of the calls.                                                *)
(***************************************************************************)
\* strings handed in as a country code; the last two are a sharp s followed
\* by a digit and the two code units of U+1F600
CodeStrings ==
  { <<>>, Lit("U"), Lit("US"), Lit("us"), Lit("Us"), Lit("uS"),
    Lit("IN"), Lit("in"), Lit("GB"), Lit("gb"), Lit("AF"), Lit("AX"),
    Lit("az"), Lit("Za"), Lit("XXX"), Lit("USA1"), Lit("1!"),
    <<223, 49>>, <<55357, 56832>> }

\* an array of two country objects
SomeArray ==
  Arr(<<[code |-> Str(Lit("AF")), name |-> Str(Lit("A")), flag |-> EmptyString],
        [code |-> Str(Lit("AX")), name |-> Str(Lit("B")), flag |-> EmptyString]>>)

\* values handed in as a country code that are no strings
NonStrings == {Undefined, Null, Num(0), Num(42), True, Obj, Arr(<<>>), SomeArray}

CodeValues == {Str(u) : u \in CodeStrings} \cup NonStrings

\* values handed in as a width
WidthValues == {Undefined, Num(0 - 5), Num(0), Num(10), Num(40), Num(80)}

FlagAF == FromCodePoints(<<127462, 127467>>)
FlagAX == FromCodePoints(<<127462, 127485>>)
FlagIN == FromCodePoints(<<127470, 127475>>)

\* country objects; the last two are no rows of the country table: a
\* lower-case code with a flag of its own, and an empty code
CountryPool ==
  { [code |-> Str(Lit("AF")), name |-> Str(Lit("Afghanistan")),
     flag |-> Str(FlagAF)],
    [code |-> Str(Lit("AX")),
     name |-> Str(<<197>> \o Lit("land Islands")),
     flag |-> Str(FlagAX)],
    [code |-> Str(Lit("IN")), name |-> Str(Lit("India")),
     flag |-> Str(FlagIN)],
    [code |-> Str(Lit("in")), name |-> Str(Lit("india")),
     flag |-> Str(Lit("#"))],
    [code |-> EmptyString, name |-> Str(Lit("Nowhere")),
     flag |-> EmptyString] }

\* arrays of at most MaxCountries country objects
CountryArrays ==
  UNION {[1..k -> CountryPool] : k \in 0..MaxCountries}

\* values handed in as the countries argument that are no arrays
NonArrays == {Undefined, Null, Num(7), Str(Lit("AF")), Obj}

\* options objects, every field either left out or set: the fields the
\* options of the markup depend on in all combinations, and the fields of the
\* select element in all combinations
OptionsValues ==
  { [NoOptions EXCEPT !.selectedCode = sc, !.useImageFlags = u,
                      !.flagWidth = w] :
      sc \in {Undefined, EmptyString, Str(Lit("AX")), Str(Lit("in")),
              Str(Lit("ZZ"))},
      u \in {Undefined, True, False},
      w \in {Undefined, Num(0), Num(0 - 5)} }
  \cup
  [id            : {Undefined, Str(Lit("my-countries"))},
   name          : {Undefined, Str(Lit("my-country"))},
   className     : {Undefined, EmptyString, Str(Lit("country-dropdown"))},
   selectedCode  : {Undefined, Str(Lit("AX"))},
   useImageFlags : {Undefined, False},
   flagWidth     : {Undefined}]

\* the country objects handed to the adapters: AF, the lower-case code with a
\* flag of its own, and the empty code
AdapterPool ==
  {c \in CountryPool :
     c.code \in {Str(Lit("AF")), Str(Lit("in")), EmptyString}}

\* arrays of at most MaxCountries of these country objects
AdapterArrays ==
  UNION {[1..k -> AdapterPool] : k \in 0..MaxCountries}

\* props objects of the adapters, every property either left out or set
PropsValues ==
  { [NoProps EXCEPT !.selectedCode = sc, !.useImageFlags = u,
                    !.flagWidth = w] :
      sc \in {Undefined, Str(Lit("AF"))},
      u \in {Undefined, True, False},
      w \in {Undefined, Num(0 - 5), Num(0), Num(80)} }
  \cup
  { [NoProps EXCEPT !.id = Str(Lit("my-countries")),
                    !.name = Str(Lit("my-country")),
                    !.className = Str(Lit("country-dropdown")),
                    !.defaultValue = Str(Lit("AF")),
                    !.onChange = Str(Lit("onPick")),
                    !.ngModel = Str(Lit("picked"))],
    [NoProps EXCEPT !.className = EmptyString,
                    !.defaultValue = EmptyString],
    [NoProps EXCEPT !.defaultValue = Str(Lit("AF")),
                    !.selectedCode = Str(Lit("in"))] }

\* options objects of getVanillaJsCode, every option either left out or set
VanillaOptionsValues ==
  { [NoVanillaOptions EXCEPT !.selectedCode = sc, !.useImageFlags = u,
                             !.flagWidth = w, !.selectClass = c,
                             !.onChangeFunction = f] :
      sc \in {Undefined, EmptyString, Str(Lit("AU")), Str(Lit("in"))},
      u \in {Undefined, True, False},
      w \in {Undefined, Num(0), Num(30)},
      c \in {Undefined, EmptyString, Str(Lit("form-select"))},
      f \in {Undefined, Str(Lit("onPick"))} }
  \cup
  { [NoVanillaOptions EXCEPT !.containerId = Str(Lit("my-container")),
                             !.selectId = Str(Lit("vanilla-country-select")),
                             !.selectName = Str(Lit("my-country")),
                             !.selectedCode = Str(Lit("AU"))] }

\* the arguments of a call, the unused ones left undefined
Args(code, width, cs, options) ==
  [code |-> code, width |-> width, countries |-> cs,
   options |-> options]

(***************************************************************************)
(* The state machine: a call is chosen, then performed.                    *)
(***************************************************************************)
\* the calls of (op, args) performed so far
Repeats(f, a) == Cardinality({e \in seen : e.op = f /\ e.args = a})

\* the caller has written to the array it holds: it has overwritten a code
\* or removed an element
Written ==
  /\ held # "none"
  /\ \/ Len(heap.arrs[held]) # Len(countries)
     \/ \E i \in 1..Len(heap.arrs[held]) :
          heap.objs[heap.arrs[held][i]].code = Str(Lit("ZZ"))

\* the calls performed so far and the one that ends with the outcome, with
\* its number among the calls of the same arguments and, for a call of
\* getAllCountries, whether the caller had written to its array before
Logged(outcome) ==
  seen \cup {[op |-> op, args |-> args, ret |-> outcome,
              nth |-> 1 + Repeats(op, args),
              written |-> op = "getAllCountries" /\ Written]}

NoArgs == Args(Undefined, Undefined, Undefined, NoOptions)

\* no calls run at the same time
NoThreads == <<>>

\* the component is not rendered
NoComponent == [mounted |-> FALSE]

\* nothing has been called: the heap is as loaded and the caller holds no array
Fresh ==
  /\ ret = NoOutcome
  /\ heap = InitialHeap
  /\ held = "none"
  /\ seen = {}
  /\ threads = NoThreads
  /\ ui = NoComponent

Init ==
  /\ Fresh
  /\ \/ /\ op = "getFlagEmoji"
        /\ \E code \in CodeValues :
             args = Args(code, Undefined, Undefined, NoOptions)
     \/ /\ op = "getFlagImageUrl"
        /\ \E code \in CodeValues, width \in WidthValues :
             args = Args(code, width, Undefined, NoOptions)
     \/ /\ op = "getCountrySelectHTML"
        /\ \E cs \in {Arr(xs) : xs \in CountryArrays} \cup NonArrays,
              options \in OptionsValues :
             args = Args(Undefined, Undefined, cs, options)
     \/ /\ op = "getAllCountries"
        /\ args = NoArgs
     \/ /\ op = "getCountrySelect"
        /\ \E options \in OptionsValues :
             args = Args(Undefined, Undefined, Undefined, options)
     \/ /\ op \in {"getReactCountrySelect", "getAngularCountrySelect"}
        /\ \E cs \in {Arr(xs) : xs \in AdapterArrays} \cup NonArrays,
              props \in PropsValues :
             args = Args(Undefined, Undefined, cs, props)
     \/ /\ op = "getVanillaJsCode"
        /\ \E options \in VanillaOptionsValues :
             args = Args(Undefined, Undefined, Undefined, options)

CallGetFlagEmoji ==
  /\ op = "getFlagEmoji"
  /\ ret = NoOutcome
  /\ ret' = getFlagEmoji(args.code)
  /\ seen' = Logged(ret')
  /\ UNCHANGED <<op, args, heap, held, threads, ui>>

CallGetFlagImageUrl ==
  /\ op = "getFlagImageUrl"
  /\ ret = NoOutcome
  /\ ret' = getFlagImageUrl(args.code, args.width)
  /\ seen' = Logged(ret')
  /\ UNCHANGED <<op, args, heap, held, threads, ui>>

CallGetCountrySelectHTML ==
  /\ op = "getCountrySelectHTML"
  /\ ret = NoOutcome
  /\ ret' = getCountrySelectHTML(args.countries, args.options)
  /\ seen' = Logged(ret')
  /\ UNCHANGED <<op, args, heap, held, threads, ui>>

\* the caller keeps the array of its first call and drops those of later calls
CallGetAllCountries ==
  /\ op = "getAllCountries"
  /\ ret = NoOutcome
  /\ LET all == getAllCountries(heap, IF held = "none" THEN "held" ELSE "temp")
     IN  /\ ret' = Return(Arr(ValuesOf(all.heap, all.arr)))
         /\ held' = IF held = "none" THEN all.arr ELSE held
         /\ heap' = Free(all.heap, "temp")
  /\ seen' = Logged(ret')
  /\ UNCHANGED <<op, args, threads, ui>>

CallGetCountrySelect ==
  /\ op = "getCountrySelect"
  /\ ret = NoOutcome
  /\ LET r == getCountrySelect(heap, args.options)
     IN  /\ ret' = r.outcome
         /\ heap' = r.heap
  /\ seen' = Logged(ret')
  /\ UNCHANGED <<op, args, held, threads, ui>>

CallGetReactCountrySelect ==
  /\ op = "getReactCountrySelect"
  /\ ret = NoOutcome
  /\ ret' = getReactCountrySelect(args.countries, args.options)
  /\ seen' = Logged(ret')
  /\ UNCHANGED <<op, args, heap, held, threads, ui>>

CallGetAngularCountrySelect ==
  /\ op = "getAngularCountrySelect"
  /\ ret = NoOutcome
  /\ ret' = getAngularCountrySelect(args.countries, args.options)
  /\ seen' = Logged(ret')
  /\ UNCHANGED <<op, args, heap, held, threads, ui>>

CallGetVanillaJsCode ==
  /\ op = "getVanillaJsCode"
  /\ ret = NoOutcome
  /\ ret' = getVanillaJsCode(args.options)
  /\ seen' = Logged(ret')
  /\ UNCHANGED <<op, args, heap, held, threads, ui>>

Next ==
  \/ CallGetFlagEmoji
  \/ CallGetFlagImageUrl
  \/ CallGetCountrySelectHTML
  \/ CallGetAllCountries
  \/ CallGetCountrySelect
  \/ CallGetReactCountrySelect
  \/ CallGetAngularCountrySelect
  \/ CallGetVanillaJsCode

Spec == Init /\ [][Next]_vars

(***************************************************************************)
(* A caller that calls again and again, and writes to what it was given.   *)
(***************************************************************************)
\* the calls of the caller
CallerCalls ==
  { [op |-> "getAllCountries", args |-> NoArgs],
    [op |-> "getFlagEmoji",
     args |-> Args(Str(Lit("in")), Undefined, Undefined, NoOptions)],
    [op |-> "getFlagImageUrl",
     args |-> Args(Str(Lit("GB")), Num(80), Undefined, NoOptions)],
    [op |-> "getCountrySelectHTML",
     args |-> Args(Undefined, Undefined, SomeArray,
                   [NoOptions EXCEPT !.selectedCode = Str(Lit("AX"))])] }

InitCalls ==
  /\ Fresh
  /\ \E c \in CallerCalls : op = c.op /\ args = c.args

\* the caller goes on to its next call
CallerNextCall ==
  /\ ret # NoOutcome
  /\ \E c \in CallerCalls :
       /\ Repeats(c.op, c.args) < MaxRepeats
       /\ op' = c.op
       /\ args' = c.args
  /\ ret' = NoOutcome
  /\ UNCHANGED <<heap, held, seen, threads, ui>>

\* the caller overwrites the code of an entry of the array it holds
CallerWritesEntry ==
  /\ ret # NoOutcome
  /\ held # "none"
  /\ \E i \in 1..Len(heap.arrs[held]) :
       /\ heap.objs[heap.arrs[held][i]].code # Str(Lit("ZZ"))
       /\ heap' = [heap EXCEPT !.objs[heap.arrs[held][i]].code = Str(Lit("ZZ"))]
  /\ UNCHANGED <<op, args, ret, held, seen, threads, ui>>

\* the caller removes the last element of the array it holds
CallerPopsArray ==
  /\ ret # NoOutcome
  /\ held # "none"
  /\ Len(heap.arrs[held]) > 0
  /\ heap' = [heap EXCEPT !.arrs[held] =
                SubSeq(heap.arrs[held], 1, Len(heap.arrs[held]) - 1)]
  /\ UNCHANGED <<op, args, ret, held, seen, threads, ui>>

NextCalls ==
  \/ CallGetFlagEmoji
  \/ CallGetFlagImageUrl
  \/ CallGetCountrySelectHTML
  \/ CallGetAllCountries
  \/ CallerNextCall
  \/ CallerWritesEntry
  \/ CallerPopsArray

SpecCalls == InitCalls /\ [][NextCalls]_vars

(***************************************************************************)
(* Calls that run at the same time on one heap: getAllCountries reads the  *)
(* table row by row, the functions of utils.js read their arguments only.  *)
(***************************************************************************)
\* the number of calls that run at the same time
MaxThreads == 2

Threads == 1..MaxThreads

\* the name of the array the call of a thread creates
ArrayOf(t) == "thread" \o ToString(t)

\* countries.map with one array kept by the module for all calls, emptied
\* at the start of a call
NewResultArray_ModuleBuffer(h, a) ==
  [heap |->
     [objs |-> [p \in {q \in DOMAIN h.objs : q[1] # "buffer"} |-> h.objs[p]],
      arrs |-> [b \in DOMAIN h.arrs \cup {"buffer"} |->
                  IF b = "buffer" THEN <<>> ELSE h.arrs[b]]],
   arr |-> "buffer"]

\* countries.map creates the array a of its result, empty at first; the
\* result is the heap with the array and the array
NewResultArray(h, a) ==
  [heap |->
     [objs |-> [p \in {q \in DOMAIN h.objs : q[1] # a} |-> h.objs[p]],
      arrs |-> [b \in DOMAIN h.arrs \cup {a} |->
                  IF b = a THEN <<>> ELSE h.arrs[b]]],
   arr |-> a]

\* countries.map calls its callback on the i-th row of the table and puts
\* the object it returns at the end of the array a
EnrichRow(h, a, i) ==
  LET id == <<a, Len(h.arrs[a]) + 1>>
      row == h.objs[h.arrs["table"][i]]
  IN  [objs |-> [p \in DOMAIN h.objs \cup {id} |->
                   IF p = id THEN Enriched(row) ELSE h.objs[p]],
       arrs |-> [h.arrs EXCEPT ![a] = Append(@, id)]]

\* a thread that has been given a call and has not started it
Called(c) ==
  [op |-> c.op, args |-> c.args, pc |-> "called", arr |-> "none", i |-> 0,
   ret |-> NoOutcome]

InitThreads ==
  /\ op = "none"
  /\ args = NoArgs
  /\ ret = NoOutcome
  /\ heap = InitialHeap
  /\ held = "none"
  /\ seen = {}
  /\ ui = NoComponent
  /\ threads \in [Threads -> {Called(c) : c \in CallerCalls}]

\* the thread has been given a call of the function f and has not started it
AtCall(t, f) == threads[t].op = f /\ threads[t].pc = "called"

\* the thread ends its call with an outcome
Ended(t, outcome) ==
  threads' = [threads EXCEPT ![t].pc = "done", ![t].ret = outcome]

ThreadGetFlagEmoji(t) ==
  /\ AtCall(t, "getFlagEmoji")
  /\ Ended(t, getFlagEmoji(threads[t].args.code))
  /\ UNCHANGED <<op, args, ret, heap, held, seen, ui>>

ThreadGetFlagImageUrl(t) ==
  /\ AtCall(t, "getFlagImageUrl")
  /\ Ended(t, getFlagImageUrl(threads[t].args.code, threads[t].args.width))
  /\ UNCHANGED <<op, args, ret, heap, held, seen, ui>>

ThreadGetCountrySelectHTML(t) ==
  /\ AtCall(t, "getCountrySelectHTML")
  /\ Ended(t, getCountrySelectHTML(threads[t].args.countries,
                                   threads[t].args.options))
  /\ UNCHANGED <<op, args, ret, heap, held, seen, ui>>

\* getAllCountries starts: countries.map creates the array of its result
ThreadStartsMap(t) ==
  /\ AtCall(t, "getAllCountries")
  /\ LET new == NewResultArray(heap, ArrayOf(t))
     IN  /\ heap' = new.heap
         /\ threads' = [threads EXCEPT ![t].pc = "mapping", ![t].arr = new.arr,
                                       ![t].i = 1]
  /\ UNCHANGED <<op, args, ret, held, seen, ui>>

\* countries.map goes on to the next row of the table
ThreadMapsRow(t) ==
  /\ threads[t].pc = "mapping"
  /\ threads[t].i <= Len(heap.arrs["table"])
  /\ heap' = EnrichRow(heap, threads[t].arr, threads[t].i)
  /\ threads' = [threads EXCEPT ![t].i = @ + 1]
  /\ UNCHANGED <<op, args, ret, held, seen, ui>>

\* countries.map has gone through the table: getAllCountries returns the array
ThreadReturnsArray(t) ==
  /\ threads[t].pc = "mapping"
  /\ threads[t].i > Len(heap.arrs["table"])
  /\ Ended(t, Return(Arr(ValuesOf(heap, threads[t].arr))))
  /\ UNCHANGED <<op, args, ret, heap, held, seen, ui>>

NextThreads ==
  \/ \E t \in Threads : ThreadGetFlagEmoji(t)
  \/ \E t \in Threads : ThreadGetFlagImageUrl(t)
  \/ \E t \in Threads : ThreadGetCountrySelectHTML(t)
  \/ \E t \in Threads : ThreadStartsMap(t)
  \/ \E t \in Threads : ThreadMapsRow(t)
  \/ \E t \in Threads : ThreadReturnsArray(t)

SpecThreads == InitThreads /\ [][NextThreads]_vars

(***************************************************************************)
(* frameworks/react.js: the component that getReactCountryComponent emits, *)
(* mounted once and then sent clicks and mousedown events; after an event  *)
(* React renders the component again before the next one is delivered.     *)
(***************************************************************************)
\* the number of events the component is sent
MaxEvents == 4

\* the defaultValue prop: left out, a code of the list, no code of the list
DefaultValueProps == {Undefined, Str(Lit("AX")), Str(Lit("ZZ"))}

LitPlaceholder == Lit("Select a country")

\* countries.find(country => country.code === code): the place of the first
\* country of that code, 0 standing for the undefined of no such country
FindByCode(list, code) ==
  LET at == {i \in 1..Len(list) : StrictEquals(list[i].code, code)}
  IN  IF at = {} THEN 0 ELSE CHOOSE i \in at : \A j \in at : i <= j

\* the body of the component: what it renders from its props and its state;
\* label is the name on the button, listed the codes of the options of the
\* open dropdown, hidden the value of the hidden input
Render(u, h) ==
  LET all == getAllCountries(h, "temp")
      list == ValuesOf(all.heap, all.arr)
      found == FindByCode(list, u.selectedCountry)
      selectedCountryObj ==
        IF found # 0 THEN found
        ELSE IF ToBoolean(u.defaultValue)
          THEN FindByCode(list, u.defaultValue)
          ELSE 0
  IN  [u EXCEPT
         !.label = IF selectedCountryObj # 0 THEN list[selectedCountryObj].name
                   ELSE Str(LitPlaceholder),
         !.expanded = u.isOpen,
         !.listed = IF u.isOpen THEN [i \in 1..Len(list) |-> list[i].code]
                    ELSE <<>>,
         !.hidden = IF ToBoolean(u.selectedCountry) THEN u.selectedCountry
                    ELSE EmptyString]

\* the component after its first render and its effect: the state is
\* useState(defaultValue) and useState(false), the listener is registered
Mounted(defaultValueProp) ==
  [mounted |-> TRUE,
   defaultValue |-> Default(defaultValueProp, EmptyString),
   selectedCountry |-> Default(defaultValueProp, EmptyString),
   isOpen |-> FALSE,
   calls |-> <<>>,
   event |-> [kind |-> "none", code |-> Undefined],
   n |-> 0,
   label |-> Undefined, expanded |-> FALSE, listed |-> <<>>,
   hidden |-> Undefined]

\* the component is sent an event
Delivered(u, kind, code) ==
  [u EXCEPT !.event = [kind |-> kind, code |-> code], !.n = @ + 1]

\* handleCountrySelect leaving the dropdown as it is
handleCountrySelect_NotClosing(u, code) ==
  [u EXCEPT !.selectedCountry = code,
            !.calls = Append(@, code)]

\* handleCountrySelect: the state is set and onChange is called with the code
handleCountrySelect(u, code) ==
  [u EXCEPT !.selectedCountry = code,
            !.isOpen = FALSE,
            !.calls = Append(@, code)]

\* handleClickOutside: the ref holds the container while the component is
\* mounted; inside says that the container contains the target
handleClickOutside(u, inside) ==
  IF u.mounted /\ ~inside THEN [u EXCEPT !.isOpen = FALSE] ELSE u

InitComponent ==
  /\ op = "none"
  /\ args = NoArgs
  /\ ret = NoOutcome
  /\ heap = InitialHeap
  /\ held = "none"
  /\ seen = {}
  /\ threads = NoThreads
  /\ \E d \in DefaultValueProps : ui = Render(Mounted(d), heap)

\* the component can be sent an event
Listening == ui.mounted /\ ui.n < MaxEvents

\* a click on the button: setIsOpen(!isOpen)
ClickToggle ==
  /\ Listening
  /\ ui' = Render([Delivered(ui, "toggle", Undefined)
                     EXCEPT !.isOpen = ~ui.isOpen], heap)
  /\ UNCHANGED <<op, args, ret, heap, held, seen, threads>>

\* a click on an option of the open dropdown
ClickOption ==
  /\ Listening
  /\ \E i \in 1..Len(ui.listed) :
       ui' = Render(handleCountrySelect(Delivered(ui, "option", ui.listed[i]),
                                        ui.listed[i]), heap)
  /\ UNCHANGED <<op, args, ret, heap, held, seen, threads>>

\* a mousedown on the document outside of the container
MousedownOutside ==
  /\ Listening
  /\ ui' = Render(handleClickOutside(Delivered(ui, "outside", Undefined),
                                     FALSE), heap)
  /\ UNCHANGED <<op, args, ret, heap, held, seen, threads>>

\* a mousedown inside of the container
MousedownInside ==
  /\ Listening
  /\ ui' = Render(handleClickOutside(Delivered(ui, "inside", Undefined),
                                     TRUE), heap)
  /\ UNCHANGED <<op, args, ret, heap, held, seen, threads>>

\* the component is unmounted: the effect removes the listener
Unmount ==
  /\ ui.mounted
  /\ ui' = [ui EXCEPT !.mounted = FALSE]
  /\ UNCHANGED <<op, args, ret, heap, held, seen, threads>>

NextComponent ==
  \/ ClickToggle
  \/ ClickOption
  \/ MousedownOutside
  \/ MousedownInside
  \/ Unmount

SpecComponent == InitComponent /\ [][NextComponent]_vars

\* the call has been performed
Done(f) == op = f /\ ret # NoOutcome

(***************************************************************************)
(* Properties of getFlagEmoji.                                             *)
(***************************************************************************)
\* the argument is a string of exactly two code units
TwoCharString(v) == v.t = "string" /\ Len(v.s) = 2

\* C1: getFlagEmoji returns the empty string, and throws nothing, for every
\* argument that is no string and for every string whose length is not 2.
C1_EmojiSoftFailure ==
  Done("getFlagEmoji") /\ ~TwoCharString(args.code)
    => ret = Return(EmptyString)

\* getFlagEmoji('XXX') has returned the empty string
C1_Witness ==
  /\ Done("getFlagEmoji")
  /\ args.code = Str(Lit("XXX"))
  /\ ret = Return(EmptyString)

IsAsciiLetter(c) == (c >= 65 /\ c <= 90) \/ (c >= 97 /\ c <= 122)

\* the capital of an ASCII letter
AsciiUpper(c) == IF c >= 97 /\ c <= 122 THEN c - 32 ELSE c

\* the argument is a code of two ASCII letters
TwoLetterCode(v) ==
  TwoCharString(v) /\ IsAsciiLetter(v.s[1]) /\ IsAsciiLetter(v.s[2])

RECURSIVE CodePointsOf(_)
\* the code points a string of UTF-16 code units encodes
CodePointsOf(u) ==
  IF u = <<>> THEN <<>>
  ELSE IF /\ Len(u) >= 2
          /\ u[1] >= 55296 /\ u[1] <= 56319
          /\ u[2] >= 56320 /\ u[2] <= 57343
    THEN <<65536 + (u[1] - 55296) * 1024 + (u[2] - 56320)>>
           \o CodePointsOf(Tail(Tail(u)))
    ELSE <<u[1]>> \o CodePointsOf(Tail(u))

\* the result is the string of the two code points 127397 plus the capitals
\* of the two letters of the code
TwoIndicators(code, outcome) ==
  /\ outcome.kind = "return"
  /\ outcome.val.t = "string"
  /\ CodePointsOf(outcome.val.s) =
       <<127397 + AsciiUpper(code.s[1]), 127397 + AsciiUpper(code.s[2])>>

\* C2 as stated: for a code of two ASCII letters getFlagEmoji returns the
\* string of exactly two code points, 127397 plus the capital of the first
\* letter and 127397 plus the capital of the second, in that order; for 'US'
\* these are 127464 and 127482.
C2_Original ==
  Done("getFlagEmoji") /\ TwoLetterCode(args.code)
    => /\ TwoIndicators(args.code, ret)
       /\ (args.code = Str(Lit("US"))
             => CodePointsOf(ret.val.s) = <<127464, 127482>>)

\* C2 (amended): for a code of two ASCII letters getFlagEmoji returns the
\* string of exactly two code points, 127397 plus the capital of the first
\* letter and 127397 plus the capital of the second, in that order; for 'US'
\* these are 127482 and 127480.
C2_EmojiCodePoints ==
  Done("getFlagEmoji") /\ TwoLetterCode(args.code)
    => /\ TwoIndicators(args.code, ret)
       /\ (args.code = Str(Lit("US"))
             => CodePointsOf(ret.val.s) = <<127482, 127480>>)

\* getFlagEmoji('US') has returned a string of four code units
C2_Witness ==
  /\ Done("getFlagEmoji")
  /\ args.code = Str(Lit("US"))
  /\ ret.kind = "return"
  /\ Len(ret.val.s) = 4

\* the spellings of a string of ASCII letters in either case of each letter
Spellings(u) ==
  {w \in [1..Len(u) -> 65..122] :
     \A i \in 1..Len(u) : IsAsciiLetter(w[i])
                            /\ AsciiUpper(w[i]) = AsciiUpper(u[i])}

\* C3: getFlagEmoji is case-insensitive: every spelling of a code of two
\* ASCII letters, lower-case, upper-case or mixed, yields the same string.
C3_EmojiCaseInsensitive ==
  Done("getFlagEmoji") /\ TwoLetterCode(args.code)
    => \A w \in Spellings(args.code.s) : getFlagEmoji(Str(w)) = ret

\* getFlagEmoji('in') has returned what getFlagEmoji('IN') returns
C3_Witness ==
  /\ Done("getFlagEmoji")
  /\ args.code = Str(Lit("in"))
  /\ ret = getFlagEmoji(Str(Lit("IN")))
  /\ ret.val.s # <<>>

(***************************************************************************)
(* Properties of getFlagImageUrl.                                          *)
(***************************************************************************)
UrlGB80 == Lit("https://flagcdn.com/w80/gb.png")
UrlGB40 == Lit("https://flagcdn.com/w40/gb.png")
UrlHead == Lit("https://flagcdn.com/w")

\* the text of a width as it is given
WidthText(w) == IF w.n < 0 THEN Lit("-") \o Digits(0 - w.n) ELSE Digits(w.n)

\* the small letter of a code unit of the inputs (no Latin-1 capital occurs)
SmallLetter(c) == IF c >= 65 /\ c <= 90 THEN c + 32 ELSE c

\* C4: for a string of two characters and a width w, getFlagImageUrl returns
\* exactly 'https://flagcdn.com/w' + w + '/' + the lower-cased code + '.png',
\* w as it is given, and with the width left out it returns what it returns
\* for the width 40.
C4_UrlShape ==
  Done("getFlagImageUrl") /\ TwoCharString(args.code)
    => LET code == args.code.s
           w == IF args.width = Undefined THEN Num(40) ELSE args.width
       IN  /\ ret.kind = "return"
           /\ ret.val.t = "string"
           /\ ret.val.s = UrlHead \o WidthText(w) \o Lit("/")
                            \o <<SmallLetter(code[1]), SmallLetter(code[2])>>
                            \o Lit(".png")
           /\ (args.width = Undefined
                 => ret = getFlagImageUrl(args.code, Num(40)))
           /\ (code = Lit("GB") /\ args.width = Num(80)
                 => ret.val.s = UrlGB80)
           /\ (code = Lit("gb") /\ args.width = Undefined
                 => ret.val.s = UrlGB40)

\* getFlagImageUrl('GB', 0) has returned a URL
C4_Witness ==
  /\ Done("getFlagImageUrl")
  /\ args.code = Str(Lit("GB"))
  /\ args.width = Num(0)
  /\ ret.kind = "return"
  /\ Len(ret.val.s) > 0

\* C5: getFlagImageUrl returns the empty string, and throws nothing, for
\* every width, whenever the code is no string or a string whose length is
\* not 2.
C5_UrlSoftFailure ==
  Done("getFlagImageUrl") /\ ~TwoCharString(args.code)
    => ret = Return(EmptyString)

\* getFlagImageUrl('XXX', 10) has returned the empty string
C5_Witness ==
  /\ Done("getFlagImageUrl")
  /\ args.code = Str(Lit("XXX"))
  /\ args.width = Num(10)
  /\ ret = Return(EmptyString)

(***************************************************************************)
(* Properties of getCountrySelectHTML.                                     *)
(***************************************************************************)
\* C6 as stated: for every countries argument that is no array, whatever the
\* options, getCountrySelectHTML fails with an InvalidInput error carrying a
\* descriptive message, and returns no string.
C6_Original ==
  Done("getCountrySelectHTML") /\ args.countries.t # "array"
    => /\ ret.kind = "throw"
       /\ ret.err.name = "InvalidInput"
       /\ ret.err.message # <<>>

\* C6 (amended): for every countries argument that is no array, whatever the
\* options, getCountrySelectHTML throws a plain Error (its name is 'Error',
\* there is no InvalidInput error type) whose message is 'Countries must be
\* an array', and returns no string.
C6_NonArrayThrows ==
  Done("getCountrySelectHTML") /\ args.countries.t # "array"
    => /\ ret.kind = "throw"
       /\ ret.err.name = "Error"
       /\ ret.err.message = Lit("Countries must be an array")
       /\ ret.val = Undefined

\* getCountrySelectHTML(null, {selectedCode: 'AX'}) has thrown
C6_Witness ==
  /\ Done("getCountrySelectHTML")
  /\ args.countries = Null
  /\ args.options.selectedCode = Str(Lit("AX"))
  /\ ret.kind = "throw"

\* the places of a string where a pattern occurs
Occurrences(h, pat) ==
  {p \in 1..(Len(h) - Len(pat) + 1) :
     h[p] = pat[1] /\ SubSeq(h, p, p + Len(pat) - 1) = pat}

RECURSIVE Ascending(_)
\* the numbers of a set in ascending order
Ascending(S) ==
  IF S = {} THEN <<>>
  ELSE LET m == CHOOSE x \in S : \A y \in S : x <= y
       IN  <<m>> \o Ascending(S \ {m})

TagOption == Lit("<option")
TagOptionEnd == Lit("</option>")
AttrValue == Lit("<option value=\"")
AttrSelected == Lit(" selected>")

\* the option elements of a markup, each from its <option to its </option>
OptionElements(h) ==
  LET starts == Ascending(Occurrences(h, TagOption))
      ends == Ascending(Occurrences(h, TagOptionEnd))
  IN  IF Len(starts) # Len(ends) THEN <<>>
      ELSE [i \in 1..Len(starts) |->
              SubSeq(h, starts[i], ends[i] + Len(TagOptionEnd) - 1)]

\* the opening tag of an option element, up to its first >
OpeningTag(e) ==
  SubSeq(e, 1, CHOOSE p \in 1..Len(e) :
                 e[p] = 62 /\ \A q \in 1..(p - 1) : e[q] # 62)

\* the text of the value attribute of an option element
ValueOf(e) ==
  LET from == Len(AttrValue) + 1
      to == CHOOSE p \in from..Len(e) :
              e[p] = 34 /\ \A q \in from..(p - 1) : e[q] # 34
  IN  SubSeq(e, from, to - 1)

StartsWith(u, pre) == Len(u) >= Len(pre) /\ SubSeq(u, 1, Len(pre)) = pre
EndsWith(u, suf) ==
  Len(u) >= Len(suf) /\ SubSeq(u, Len(u) - Len(suf) + 1, Len(u)) = suf

\* the option element carries the selected attribute
HasSelected(e) == EndsWith(OpeningTag(e), AttrSelected)

\* the call of the renderer on an array of countries has returned a string
Rendered ==
  /\ Done("getCountrySelectHTML")
  /\ args.countries.t = "array"
  /\ ret.kind = "return"
  /\ ret.val.t = "string"

\* C7: for every array of countries getCountrySelectHTML emits exactly one
\* option per element, the i-th option carrying the code and the name of the
\* i-th country: nothing is reordered, sorted, dropped or deduplicated.
C7_OneOptionPerCountry ==
  Done("getCountrySelectHTML") /\ args.countries.t = "array"
    => /\ Rendered
       /\ LET items == args.countries.items
              opts == OptionElements(ret.val.s)
          IN  /\ Cardinality(Occurrences(ret.val.s, TagOption)) = Len(items)
              /\ Len(opts) = Len(items)
              /\ \A i \in 1..Len(items) :
                   /\ StartsWith(opts[i], AttrValue)
                   /\ ValueOf(opts[i]) = items[i].code.s
                   /\ EndsWith(opts[i], items[i].name.s \o TagOptionEnd)

\* an array holding the same country twice has been rendered as two options
C7_Witness ==
  /\ Rendered
  /\ Len(args.countries.items) = 2
  /\ args.countries.items[1] = args.countries.items[2]
  /\ Len(OptionElements(ret.val.s)) = 2

\* the selected code of the options after its default
EffectiveSelectedCode ==
  IF args.options.selectedCode = Undefined THEN EmptyString
  ELSE args.options.selectedCode

\* C8: an option carries the selected attribute if and only if the code of
\* its country is exactly the selected code of the options ('' when left
\* out), case-sensitively and without normalization: the selected code 'in'
\* does not select the country with the code 'IN'.
C8_SelectedIffEqual ==
  Rendered
    => LET items == args.countries.items
           opts == OptionElements(ret.val.s)
       IN  /\ Len(opts) = Len(items)
           /\ \A i \in 1..Len(items) :
                HasSelected(opts[i]) <=> items[i].code = EffectiveSelectedCode

\* the country IN has been rendered unselected under the selected code 'in'
C8_Witness ==
  /\ Rendered
  /\ args.options.selectedCode = Str(Lit("in"))
  /\ Len(args.countries.items) >= 1
  /\ args.countries.items[1].code = Str(Lit("IN"))
  /\ ~HasSelected(OptionElements(ret.val.s)[1])

\* the codes of the countries are pairwise distinct
DistinctCodes(items) ==
  \A i, j \in 1..Len(items) : i # j => items[i].code # items[j].code

\* C9: when the countries have pairwise distinct codes and the selected code
\* is the code of one of them, exactly one option carries the selected
\* attribute, and it is the option of that country.
C9_ExactlyOneSelected ==
  Rendered /\ DistinctCodes(args.countries.items)
    => LET items == args.countries.items
           opts == OptionElements(ret.val.s)
       IN  \A k \in 1..Len(items) :
             items[k].code = args.options.selectedCode
               => /\ Len(opts) = Len(items)
                  /\ {i \in 1..Len(opts) : HasSelected(opts[i])} = {k}

\* AF and AX have been rendered with AX, the second, selected
C9_Witness ==
  /\ Rendered
  /\ Len(args.countries.items) = 2
  /\ args.countries.items[1].code = Str(Lit("AF"))
  /\ args.countries.items[2].code = Str(Lit("AX"))
  /\ args.options.selectedCode = Str(Lit("AX"))
  /\ HasSelected(OptionElements(ret.val.s)[2])

\* no option of the markup carries the selected attribute
NoneSelected(h) ==
  LET opts == OptionElements(h)
  IN  \A i \in 1..Len(opts) : ~HasSelected(opts[i])

\* C10 as stated: when the selected code is the code of no country, or is
\* left out, getCountrySelectHTML raises no error and no option carries the
\* selected attribute.
C10_Original ==
  /\ Done("getCountrySelectHTML")
  /\ args.countries.t = "array"
  /\ \/ args.options.selectedCode = Undefined
     \/ \A i \in 1..Len(args.countries.items) :
          args.countries.items[i].code # args.options.selectedCode
  => Rendered /\ NoneSelected(ret.val.s)

\* C10 (amended): when the selected code, '' when it is left out, is the code
\* of no country, getCountrySelectHTML raises no error and no option carries
\* the selected attribute; with the selected code left out, a country whose
\* code is the empty string is selected.
C10_NoMatchNoneSelected ==
  /\ Done("getCountrySelectHTML")
  /\ args.countries.t = "array"
  => /\ Rendered
     /\ (\A i \in 1..Len(args.countries.items) :
            args.countries.items[i].code # EffectiveSelectedCode)
          => NoneSelected(ret.val.s)
     /\ LET opts == OptionElements(ret.val.s)
        IN  \A i \in 1..Len(args.countries.items) :
              args.options.selectedCode = Undefined
                /\ args.countries.items[i].code = EmptyString
              => Len(opts) = Len(args.countries.items)
                   /\ HasSelected(opts[i])

\* AF and AX have been rendered under the selected code 'ZZ'
C10_Witness ==
  /\ Rendered
  /\ Len(args.countries.items) = 2
  /\ args.options.selectedCode = Str(Lit("ZZ"))
  /\ NoneSelected(ret.val.s)
  /\ Len(OptionElements(ret.val.s)) = 2

(***************************************************************************)
(* Properties of the markup of getCountrySelectHTML.                       *)
(***************************************************************************)
SelectDefaultTag == Lit("<select id=\"country-select\" name=\"country\" class=\"\">")
TagSelectEnd == Lit("</select>")

\* C11: getCountrySelectHTML([], {}) produces a select element whose opening
\* tag is exactly <select id="country-select" name="country" class=""> and
\* which has no option children.
C11_EmptyDefaultSelect ==
  /\ Done("getCountrySelectHTML")
  /\ args.countries = Arr(<<>>)
  /\ args.options = NoOptions
  => /\ Rendered
     /\ OpeningTag(ret.val.s) = SelectDefaultTag
     /\ Occurrences(ret.val.s, TagOption) = {}
     /\ EndsWith(ret.val.s, TagSelectEnd)

\* getCountrySelectHTML([], {}) has returned a select element
C11_Witness ==
  /\ Rendered
  /\ args.countries = Arr(<<>>)
  /\ args.options = NoOptions
  /\ StartsWith(ret.val.s, Lit("<select"))

\* the text of an attribute of a tag, key being the attribute's name between
\* a space and the opening quote; <<>> also when the tag has no such attribute
AttrOf(tag, key) ==
  LET at == Occurrences(tag, key)
  IN  IF at = {} THEN <<>>
      ELSE LET from == (CHOOSE p \in at : \A q \in at : p <= q) + Len(key)
               to == CHOOSE p \in from..Len(tag) :
                       tag[p] = 34 /\ \A q \in from..(p - 1) : tag[q] # 34
           IN  SubSeq(tag, from, to - 1)

KeyClass == Lit(" class=\"")
KeySrc == Lit(" src=\"")
KeyAlt == Lit(" alt=\"")
KeyStyle == Lit(" style=\"")
WordClass == Lit("class")

\* the className of the options is the empty string or is left out
NoClassName == args.options.className \in {Undefined, EmptyString}

\* C12 as stated: when className is the empty string or is left out, the
\* select element carries no class attribute.
C12_Original ==
  Rendered /\ NoClassName
    => Occurrences(OpeningTag(ret.val.s), WordClass) = {}

\* C12 (amended): when className is the empty string or is left out, the
\* select element carries the class attribute with an empty value, class="".
C12_EmptyClassEmitted ==
  Rendered /\ NoClassName
    => /\ Cardinality(Occurrences(OpeningTag(ret.val.s), KeyClass)) = 1
       /\ AttrOf(OpeningTag(ret.val.s), KeyClass) = <<>>
       /\ EndsWith(OpeningTag(ret.val.s), Lit(" class=\"\">"))

\* two countries have been rendered under className ''
C12_Witness ==
  /\ Rendered
  /\ args.options.className = EmptyString
  /\ Len(args.countries.items) = 2
  /\ Occurrences(OpeningTag(ret.val.s), WordClass) # {}

\* the options of the call after their defaults, as the claims read them
EffectiveUseImageFlags ==
  IF args.options.useImageFlags = Undefined THEN TRUE
  ELSE args.options.useImageFlags = True

EffectiveFlagWidth ==
  IF args.options.flagWidth = Undefined THEN Num(40)
  ELSE args.options.flagWidth

\* the content of an option element, between its opening and its closing tag
ContentOf(e) ==
  SubSeq(e, Len(OpeningTag(e)) + 1, Len(e) - Len(TagOptionEnd))

TagImg == Lit("<img")

\* the declaration of the width w in a style
WidthDeclaration(w) == Lit("width: ") \o WidthText(w) \o Lit("px")

\* C13: when useImageFlags is true, the content of every option is an img
\* tag whose src is getFlagImageUrl(code, flagWidth), whose alt is the code
\* and whose inline style has the width flagWidth px, immediately followed
\* by the name of the country.
C13_ImageOption ==
  Rendered /\ EffectiveUseImageFlags
    => LET items == args.countries.items
           opts == OptionElements(ret.val.s)
       IN  /\ Len(opts) = Len(items)
           /\ \A i \in 1..Len(items) :
                LET content == ContentOf(opts[i])
                    tag == OpeningTag(content)
                IN  /\ StartsWith(tag, TagImg)
                    /\ AttrOf(tag, KeySrc) =
                         getFlagImageUrl(items[i].code, EffectiveFlagWidth).val.s
                    /\ AttrOf(tag, KeyAlt) = items[i].code.s
                    /\ Occurrences(AttrOf(tag, KeyStyle),
                                   WidthDeclaration(EffectiveFlagWidth)) # {}
                    /\ content = tag \o items[i].name.s

\* AX has been rendered as an image of the width 0
C13_Witness ==
  /\ Rendered
  /\ args.options.useImageFlags = True
  /\ args.options.flagWidth = Num(0)
  /\ Len(args.countries.items) = 1
  /\ args.countries.items[1].code = Str(Lit("AX"))
  /\ Occurrences(ret.val.s, Lit("https://flagcdn.com/w0/ax.png")) # {}

\* C14: when useImageFlags is false, the content of every option is the flag
\* field of the country, one space and the name of the country, with no img
\* tag; the emoji is not computed from the code again.
C14_EmojiOption ==
  Rendered /\ ~EffectiveUseImageFlags
    => LET items == args.countries.items
           opts == OptionElements(ret.val.s)
       IN  /\ Len(opts) = Len(items)
           /\ Occurrences(ret.val.s, TagImg) = {}
           /\ \A i \in 1..Len(items) :
                ContentOf(opts[i]) =
                  items[i].flag.s \o <<32>> \o items[i].name.s

\* the country in, whose flag field is no emoji of its code, has been
\* rendered with that flag field
C14_Witness ==
  /\ Rendered
  /\ args.options.useImageFlags = False
  /\ Len(args.countries.items) = 1
  /\ args.countries.items[1].code = Str(Lit("in"))
  /\ ContentOf(OptionElements(ret.val.s)[1]) = Lit("# india")

\* the options of a markup that hold an img tag
WithImage(opts) == {i \in 1..Len(opts) : Occurrences(opts[i], TagImg) # {}}

\* C15: within one output all options use the same branch: every option
\* holds an img flag when useImageFlags is true and none does when it is
\* false, for any list of countries.
C15_OneBranch ==
  Rendered
    => LET opts == OptionElements(ret.val.s)
       IN  /\ Len(opts) = Len(args.countries.items)
           /\ WithImage(opts) =
                IF EffectiveUseImageFlags THEN 1..Len(opts) ELSE {}

\* a country with a code and one without have both been rendered as images
C15_Witness ==
  /\ Rendered
  /\ EffectiveUseImageFlags
  /\ Len(args.countries.items) = 2
  /\ args.countries.items[1].code = Str(Lit("AF"))
  /\ args.countries.items[2].code = EmptyString
  /\ WithImage(OptionElements(ret.val.s)) = {1, 2}

(***************************************************************************)
(* Properties of getAllCountries and getCountrySelect, and of repeated     *)
(* calls.                                                                  *)
(***************************************************************************)
\* C16: getAllCountries, getFlagEmoji, getFlagImageUrl and
\* getCountrySelectHTML are deterministic: two calls of the same function
\* with the same arguments, at any points of any sequence of calls, have the
\* same outcome, whatever was called or written in between.
C16_Deterministic ==
  \A a, b \in seen : a.op = b.op /\ a.args = b.args => a.ret = b.ret

\* getAllCountries has been called before and after the caller wrote to the
\* array of the first call, and the renderer has been called twice
C16_Witness ==
  /\ \E a, b \in seen :
       /\ a.op = "getAllCountries" /\ b.op = "getAllCountries"
       /\ a.nth = 1 /\ ~a.written
       /\ b.nth = 2 /\ b.written
  /\ \E a, b \in seen :
       /\ a.op = "getCountrySelectHTML" /\ b.op = "getCountrySelectHTML"
       /\ a.nth = 1 /\ b.nth = 2

\* the list getAllCountries is to return: the rows of the table in their
\* order, each with the emoji of its code
EnrichedTable ==
  [i \in 1..Len(countries) |->
     [name |-> countries[i].name,
      code |-> countries[i].code,
      flag |-> getFlagEmoji(countries[i].code).val]]

\* C17: for every options value getCountrySelect(options) returns exactly
\* getCountrySelectHTML(getAllCountries(), options): the whole enriched list
\* in the order of the table, the options handed on unchanged.
C17_WrapperEquivalent ==
  Done("getCountrySelect")
    => /\ ret = getCountrySelectHTML(Arr(EnrichedTable), args.options)
       /\ ret.kind = "return"
       /\ Len(OptionElements(ret.val.s)) = Len(countries)

\* getCountrySelect({selectedCode: 'AX', useImageFlags: false}) has returned
\* a markup with AX selected
C17_Witness ==
  /\ Done("getCountrySelect")
  /\ args.options.selectedCode = Str(Lit("AX"))
  /\ args.options.useImageFlags = False
  /\ ret.kind = "return"
  /\ HasSelected(OptionElements(ret.val.s)[2])

\* C18: getAllCountries() returns a sequence of the length and in the order
\* of the table, whose i-th entry has the name and the code of the i-th row
\* unchanged and the flag getFlagEmoji(code).
C18_AllCountries ==
  Done("getAllCountries")
    => /\ ret.kind = "return"
       /\ ret.val.t = "array"
       /\ Len(ret.val.items) = Len(countries)
       /\ \A i \in 1..Len(countries) :
            /\ ret.val.items[i].name = countries[i].name
            /\ ret.val.items[i].code = countries[i].code
            /\ ret.val.items[i].flag = getFlagEmoji(countries[i].code).val
            /\ Len(CodePointsOf(ret.val.items[i].flag.s)) = 2

\* getAllCountries() has returned Afghanistan first, with its flag
C18_Witness ==
  /\ Done("getAllCountries")
  /\ ret.kind = "return"
  /\ ret.val.items[1].code = Str(Lit("AF"))
  /\ CodePointsOf(ret.val.items[1].flag.s) = <<127462, 127467>>

\* the outcomes of the calls of getAllCountries so far
AllCountriesOutcomes == {e.ret : e \in {x \in seen : x.op = "getAllCountries"}}

\* C19: the table is never written to and no result is kept: after any
\* sequence of calls, the caller writing to the array or to an entry it got
\* from an earlier getAllCountries call included, the table is as loaded and
\* every getAllCountries call has returned what the first one returned.
C19_TableUntouched ==
  /\ heap.arrs["table"] = InitialHeap.arrs["table"]
  /\ \A i \in 1..Len(countries) : heap.objs[<<"table", i>>] = countries[i]
  /\ Cardinality(AllCountriesOutcomes) <= 1
  /\ (Done("getAllCountries") => AllCountriesOutcomes = {ret})

\* the caller has overwritten a code and removed an element of the array of
\* its first call, and getAllCountries has then returned for the second time
C19_Witness ==
  /\ Done("getAllCountries")
  /\ held # "none"
  /\ Len(heap.arrs[held]) >= 1
  /\ Len(heap.arrs[held]) < Len(countries)
  /\ heap.objs[heap.arrs[held][1]].code = Str(Lit("ZZ"))
  /\ \E e \in seen : e.op = "getAllCountries" /\ e.nth = 2 /\ e.written
  /\ Len(ret.val.items) = Len(countries)

(***************************************************************************)
(* The width of the flag images.                                           *)
(***************************************************************************)
\* the markup shows the width w in the image URL of its i-th option
WidthInUrl(opts, i, w) ==
  StartsWith(AttrOf(OpeningTag(ContentOf(opts[i])), KeySrc),
             UrlHead \o WidthText(w) \o Lit("/"))

\* the markup shows the width w in the inline style of its i-th option
WidthInStyle(opts, i, w) ==
  Occurrences(AttrOf(OpeningTag(ContentOf(opts[i])), KeyStyle),
              WidthDeclaration(w)) # {}

\* the call is one in image mode with an integer as flagWidth
ImageModeWithWidth ==
  Rendered /\ EffectiveUseImageFlags /\ args.options.flagWidth.t = "number"

\* C20 as stated: for every integer flagWidth, zero and negative ones
\* included, getCountrySelectHTML in image mode raises no error and emits
\* that value in the image URL (w{flagWidth}) and in the inline style
\* (width: {flagWidth}px) of every option.
C20_Original ==
  /\ Done("getCountrySelectHTML")
  /\ args.countries.t = "array"
  /\ EffectiveUseImageFlags
  /\ args.options.flagWidth.t = "number"
  => /\ Rendered
     /\ LET opts == OptionElements(ret.val.s)
        IN  \A i \in 1..Len(opts) :
              /\ WidthInUrl(opts, i, args.options.flagWidth)
              /\ WidthInStyle(opts, i, args.options.flagWidth)

\* C20 (amended): for every integer flagWidth, zero and negative ones
\* included, getCountrySelectHTML in image mode raises no error and emits
\* that value in the inline style (width: {flagWidth}px) of every option and
\* in the image URL (w{flagWidth}) of every option whose code is a string of
\* two characters; the image URL of any other option is empty.
C20_WidthLiteral ==
  /\ Done("getCountrySelectHTML")
  /\ args.countries.t = "array"
  /\ EffectiveUseImageFlags
  /\ args.options.flagWidth.t = "number"
  => /\ Rendered
     /\ LET opts == OptionElements(ret.val.s)
            items == args.countries.items
        IN  /\ Len(opts) = Len(items)
            /\ \A i \in 1..Len(opts) :
                 /\ WidthInStyle(opts, i, args.options.flagWidth)
                 /\ IF TwoCharString(items[i].code)
                    THEN WidthInUrl(opts, i, args.options.flagWidth)
                    ELSE AttrOf(OpeningTag(ContentOf(opts[i])), KeySrc) = <<>>

\* AF and the country without a code have been rendered at the width -5
C20_Witness ==
  /\ ImageModeWithWidth
  /\ args.options.flagWidth = Num(0 - 5)
  /\ Len(args.countries.items) = 2
  /\ args.countries.items[1].code = Str(Lit("AF"))
  /\ args.countries.items[2].code = EmptyString
  /\ Occurrences(ret.val.s, Lit("/w-5/af.png")) # {}
  /\ Occurrences(ret.val.s, Lit("width: -5px;")) # {}

(***************************************************************************)
(* The defaults of the options.                                            *)
(***************************************************************************)
\* the options object that sets every option to its documented default
DocumentedDefaults ==
  [id            |-> Str(Lit("country-select")),
   name          |-> Str(Lit("country")),
   className     |-> Str(<<>>),
   selectedCode  |-> Str(<<>>),
   useImageFlags |-> True,
   flagWidth     |-> Num(40)]

\* an options object with every option it leaves out set to its documented
\* default
Filled(options) ==
  [f \in DOMAIN options |->
     IF options[f] = Undefined THEN DocumentedDefaults[f] ELSE options[f]]

\* the options the object leaves out
Omitted(options) == {f \in DOMAIN options : options[f] = Undefined}

\* C21: every option left out takes its documented default, independently
\* of the others: getCountrySelectHTML(countries, options) returns what it
\* returns for the options with the omitted ones set to id 'country-select',
\* name 'country', className '', selectedCode '', useImageFlags true and
\* flagWidth 40, and with no options at all what it returns for all six
\* defaults written out.
C21_OmittedTakeDefaults ==
  Done("getCountrySelectHTML") /\ args.countries.t = "array"
    => /\ Rendered
       /\ ret = getCountrySelectHTML(args.countries, Filled(args.options))
       /\ getCountrySelectHTML(args.countries, NoOptions) =
            getCountrySelectHTML(args.countries, DocumentedDefaults)

\* two countries have been rendered with every option but selectedCode left
\* out: the select element has the default id and the image URLs carry the
\* width 40
C21_Witness ==
  /\ Rendered
  /\ Omitted(args.options) = DOMAIN args.options \ {"selectedCode"}
  /\ args.options.selectedCode = Str(Lit("AX"))
  /\ Len(args.countries.items) = 2
  /\ StartsWith(ret.val.s, Lit("<select id=\"country-select\" name=\"country\""))
  /\ Occurrences(ret.val.s, Lit("https://flagcdn.com/w40/")) # {}

(***************************************************************************)
(* getFlagEmoji on strings of two characters that are no letters.          *)
(***************************************************************************)
\* C25: for every string of two characters, letters or not, getFlagEmoji
\* throws nothing and returns a string of exactly two code points, the i-th
\* being 127397 plus the code of the i-th character of the upper-cased
\* argument.
C25_TwoCodePoints ==
  Done("getFlagEmoji") /\ TwoCharString(args.code)
    => /\ ret.kind = "return"
       /\ ret.val.t = "string"
       /\ LET points == CodePointsOf(ret.val.s)
              upper == ToUpperCase(args.code.s)
          IN  /\ Len(points) = 2
              /\ \A i \in 1..2 : points[i] = 127397 + upper[i]

(***************************************************************************)
(* A bad record among the countries.                                       *)
(***************************************************************************)
\* the places of the countries whose code is no string of two characters
BadRecords(items) == {i \in 1..Len(items) : ~TwoCharString(items[i].code)}

\* a sequence without its k-th element
Without(xs, k) == SubSeq(xs, 1, k - 1) \o SubSeq(xs, k + 1, Len(xs))

\* C26: when useImageFlags is true and one country of the list has a code
\* that is no string of two characters, getCountrySelectHTML throws nothing,
\* emits for that country an option whose img has the empty string as src,
\* and emits the option of every other country exactly as it does for the
\* list without the bad record.
C26_BadRecordTolerated ==
  /\ Done("getCountrySelectHTML")
  /\ args.countries.t = "array"
  /\ EffectiveUseImageFlags
  /\ Cardinality(BadRecords(args.countries.items)) = 1
  => /\ Rendered
     /\ LET items == args.countries.items
            opts == OptionElements(ret.val.s)
            k == CHOOSE i \in BadRecords(items) : TRUE
            rest == getCountrySelectHTML(Arr(Without(items, k)), args.options)
            img == OpeningTag(ContentOf(opts[k]))
        IN  /\ Len(opts) = Len(items)
            /\ StartsWith(img, Lit("<img src=\"\" "))
            /\ AttrOf(img, KeySrc) = <<>>
            /\ rest.kind = "return"
            /\ OptionElements(rest.val.s) = Without(opts, k)

\* AF and the country without a code have been rendered in image mode: the
\* second option has an empty src, the first the URL of AF
C26_Witness ==
  /\ Rendered
  /\ EffectiveUseImageFlags
  /\ Len(args.countries.items) = 2
  /\ args.countries.items[1].code = Str(Lit("AF"))
  /\ args.countries.items[2].code = EmptyString
  /\ Occurrences(OptionElements(ret.val.s)[2], Lit("<img src=\"\" alt=\"\"")) # {}
  /\ Occurrences(OptionElements(ret.val.s)[1], Lit("/af.png")) # {}

(***************************************************************************)
(* Properties of the framework adapters.                                   *)
(***************************************************************************)
\* the call of an adapter has ended
AdapterDone ==
  Done("getReactCountrySelect") \/ Done("getAngularCountrySelect")

\* the call of an adapter on an array of countries has returned a string
AdapterRendered ==
  /\ AdapterDone
  /\ args.countries.t = "array"
  /\ ret.kind = "return"
  /\ ret.val.t = "string"

\* the text of the value of an option element of an adapter: the value
\* attribute of JSX, the [value] binding of an Angular template
AdapterValueOf(e) ==
  AttrOf(OpeningTag(e),
         IF op = "getReactCountrySelect" THEN Lit(" value=\"")
         ELSE Lit(" [value]=\""))

\* the option element ends with the name: after the flag and a space, after
\* the img of an Angular template, or as the text expression of JSX
NameShown(e, name) ==
  \/ EndsWith(e, <<32>> \o name \o TagOptionEnd)
  \/ EndsWith(e, Lit("/> ") \o name \o Lit("\n  </option>"))
  \/ EndsWith(e, Lit("{' ") \o name \o Lit("'}\n    </>\n  </option>"))

\* C22: for every array of countries getReactCountrySelect and
\* getAngularCountrySelect emit exactly one option per element, the i-th
\* option carrying the code and the name of the i-th country: nothing is
\* sorted or deduplicated.
C22_AdaptersOneOptionPerCountry ==
  AdapterDone /\ args.countries.t = "array"
    => /\ AdapterRendered
       /\ LET items == args.countries.items
              opts == OptionElements(ret.val.s)
          IN  /\ Cardinality(Occurrences(ret.val.s, TagOption)) = Len(items)
              /\ Len(opts) = Len(items)
              /\ \A i \in 1..Len(items) :
                   /\ AdapterValueOf(opts[i]) = items[i].code.s
                   /\ NameShown(opts[i], items[i].name.s)

\* getReactCountrySelect has rendered the same country twice as two options
C22_Witness ==
  /\ AdapterRendered
  /\ op = "getReactCountrySelect"
  /\ Len(args.countries.items) = 2
  /\ args.countries.items[1] = args.countries.items[2]
  /\ args.countries.items[1].code = Str(Lit("in"))
  /\ Len(OptionElements(ret.val.s)) = 2
  /\ AdapterValueOf(OptionElements(ret.val.s)[2]) = Lit("in")

\* the opening tag of the select element of an adapter's output
SelectTag(h) ==
  LET at == CHOOSE p \in Occurrences(h, Lit("<select")) : TRUE
  IN  OpeningTag(SubSeq(h, at, Len(h)))

\* the options an adapter's output pre-selects: those carrying a selected
\* attribute of their own, and those whose code the select element names as
\* its value or default value
Preselected(h) ==
  LET opts == OptionElements(h)
      tag == SelectTag(h)
      named == {AttrOf(tag, Lit(" defaultValue=\"")),
                AttrOf(tag, Lit(" value=\""))}
  IN  {i \in 1..Len(opts) :
         \/ Occurrences(OpeningTag(opts[i]), Lit("selected")) # {}
         \/ /\ AdapterValueOf(opts[i]) # <<>>
            /\ AdapterValueOf(opts[i]) \in named}

\* C23: given countries of pairwise distinct codes and a selectedCode that is
\* the code of one of them, getReactCountrySelect and getAngularCountrySelect
\* emit an output that pre-selects that country and no other, as
\* getCountrySelectHTML does for the same options.
C23_AdaptersPreselect ==
  /\ AdapterDone
  /\ args.countries.t = "array"
  /\ DistinctCodes(args.countries.items)
  => \A k \in 1..Len(args.countries.items) :
       args.countries.items[k].code = args.options.selectedCode
         => /\ AdapterRendered
            /\ Preselected(ret.val.s) = {k}

\* C27: getReactCountrySelect and getAngularCountrySelect throw an Error
\* with the message 'Countries must be an array' for every countries
\* argument that is no array, returning nothing, as getCountrySelectHTML
\* does; getVanillaJsCode, which has no countries argument, throws for no
\* options object and returns a string.
C27_AdaptersRejectNonArrays ==
  /\ AdapterDone /\ args.countries.t # "array"
       => /\ ret.kind = "throw"
          /\ ret.val = Undefined
          /\ ret.err.name = "Error"
          /\ ret.err.message = Lit("Countries must be an array")
          /\ ret = getCountrySelectHTML(args.countries, NoOptions)
  /\ Done("getVanillaJsCode")
       => /\ ret.kind = "return"
          /\ ret.val.t = "string"
          /\ args.countries = Undefined

\* getAngularCountrySelect has thrown for the countries argument null
C27_Witness ==
  /\ Done("getAngularCountrySelect")
  /\ args.countries = Null
  /\ args.options.selectedCode = Str(Lit("AF"))
  /\ ret.kind = "throw"

\* the URL an option of an Angular template binds to [src]: the text between
\* the quotes of the string literal of the binding
BoundSrcOf(e) ==
  LET bound == AttrOf(e, Lit(" [src]=\""))
  IN  SubSeq(bound, 2, Len(bound) - 1)

\* C28: for every country whose code is a string of two characters and every
\* flagWidth, the image URL getAngularCountrySelect inlines into the [src]
\* of the option in image mode is getFlagImageUrl(code, flagWidth).
C28_AngularUrlAgrees ==
  /\ Done("getAngularCountrySelect")
  /\ args.countries.t = "array"
  /\ EffectiveUseImageFlags
  => /\ AdapterRendered
     /\ LET items == args.countries.items
            opts == OptionElements(ret.val.s)
        IN  /\ Len(opts) = Len(items)
            /\ \A i \in 1..Len(items) :
                 TwoCharString(items[i].code)
                   => /\ AttrOf(opts[i], Lit(" [src]=\"")) =
                           Lit("'") \o BoundSrcOf(opts[i]) \o Lit("'")
                      /\ Str(BoundSrcOf(opts[i])) =
                           getFlagImageUrl(items[i].code,
                                           args.options.flagWidth).val

\* getAngularCountrySelect has rendered AF at the width 80 with the URL of
\* getFlagImageUrl('AF', 80)
C28_Witness ==
  /\ AdapterRendered
  /\ op = "getAngularCountrySelect"
  /\ EffectiveUseImageFlags
  /\ args.options.flagWidth = Num(80)
  /\ Len(args.countries.items) = 1
  /\ args.countries.items[1].code = Str(Lit("AF"))
  /\ BoundSrcOf(OptionElements(ret.val.s)[1]) =
       Lit("https://flagcdn.com/w80/af.png")

(***************************************************************************)
(* Properties of getVanillaJsCode.                                         *)
(***************************************************************************)
\* the statement of the generated script that selects the option of a code
SelectionStatement(code) ==
  Lit("if(country.code === '") \o code \o Lit("') option.selected = true;")

\* C29: the script of getVanillaJsCode holds the statement that sets
\* option.selected when country.code equals selectedCode if and only if the
\* selectedCode of the options is a string that is not empty; with
\* selectedCode left out or '' the script does not mention option.selected.
C29_SelectionStatementIffCode ==
  Done("getVanillaJsCode")
    => /\ ret.kind = "return"
       /\ ret.val.t = "string"
       /\ LET code == args.options.selectedCode
              given == code.t = "string" /\ code.s # <<>>
          IN  /\ given =>
                   Cardinality(Occurrences(ret.val.s,
                                           SelectionStatement(code.s))) = 1
              /\ (Occurrences(ret.val.s, Lit("option.selected")) # {})
                   <=> given

\* the script for selectedCode '' has been generated, without the statement
C29_Witness ==
  /\ Done("getVanillaJsCode")
  /\ args.options.selectedCode = EmptyString
  /\ args.options.useImageFlags = False
  /\ ret.kind = "return"
  /\ Occurrences(ret.val.s, Lit("option.selected")) = {}
  /\ Occurrences(ret.val.s, Lit("countrySelect.appendChild(option);")) # {}

(***************************************************************************)
(* Calls that run at the same time.                                        *)
(***************************************************************************)
\* the outcome of a call that runs alone, right after the modules are loaded
Alone(f, a) ==
  CASE f = "getFlagEmoji" -> getFlagEmoji(a.code)
    [] f = "getFlagImageUrl" -> getFlagImageUrl(a.code, a.width)
    [] f = "getCountrySelectHTML" -> getCountrySelectHTML(a.countries, a.options)
    [] f = "getAllCountries" ->
         LET all == getAllCountries(InitialHeap, "temp")
         IN  Return(Arr(ValuesOf(all.heap, all.arr)))

\* C24: in every interleaving of calls of getAllCountries, getFlagEmoji,
\* getFlagImageUrl and getCountrySelectHTML that run at the same time, every
\* call returns what it returns when it runs alone, and the table, the only
\* state two calls both read, is never written to.
C24_ConcurrentAsAlone ==
  /\ \A t \in Threads :
       threads[t].pc = "done"
         => threads[t].ret = Alone(threads[t].op, threads[t].args)
  /\ heap.arrs["table"] = InitialHeap.arrs["table"]
  /\ \A i \in 1..Len(countries) : heap.objs[<<"table", i>>] = countries[i]

\* a call of getAllCountries has started, run and returned while another
\* call of getAllCountries had mapped one row and not yet the others
C24_Witness ==
  /\ threads[1].op = "getAllCountries"
  /\ threads[1].pc = "mapping"
  /\ threads[1].i = 2
  /\ Len(heap.arrs[threads[1].arr]) = 1
  /\ threads[2].op = "getAllCountries"
  /\ threads[2].pc = "done"
  /\ Len(threads[2].ret.val.items) = Len(countries)

(***************************************************************************)
(* Properties of the component of getReactCountryComponent.                *)
(***************************************************************************)
\* the component has just been sent an event of the kind
Sent(kind) == ui'.n = ui.n + 1 /\ ui'.event.kind = kind

\* the codes of the countries of the list
ListCodes == {countries[i].code : i \in 1..Len(countries)}

====
